---- MODULE Spec2Model ----
(***************************************************************************)
(* CDP relay core of playwriter: the relay state store (relay-state.ts)    *)
(* and the relay server handlers (the startPlayWriterCDPRelayServer        *)
(* closure: /cdp driver sockets, /extension sockets, HTTP discovery).      *)
(*                                                                         *)
(* One action is one event-loop task: a socket callback together with the  *)
(* promise continuations it makes runnable (microtasks run before the next *)
(* socket callback).                                                       *)
(***************************************************************************)
EXTENDS Integers, Sequences, FiniteSets, TLC

NULL == "null"

(* ---------------- bounds of the model ---------------- *)
MaxExt == 2      \* extension sockets accepted during a run
MaxSock == 2     \* driver sockets accepted during a run
MaxCmd == 1      \* command frames sent by drivers during a run
MaxEvt == 1      \* forwardCDPEvent frames sent by extensions during a run
OrderCmd == 3    \* command frames of the one driver of SpecOrder
OrderEvt == 1    \* forwardCDPEvent frames of SpecOrder
OneExt == 1      \* extension sockets of SpecOrder and SpecTargets
OneSock == 1     \* driver sockets of SpecOrder and SpecTargets
TargetCmd == 1   \* command frames of SpecTargets
TargetEvt == 2   \* forwardCDPEvent frames of SpecTargets
FrameEvt == 4    \* forwardCDPEvent frames of SpecFrames
ReconExt == 3    \* extension sockets of SpecReconnect
ReconSock == 2   \* driver sockets of SpecReconnect
ReconCmd == 1    \* command frames of SpecReconnect
AttachCmd == 1   \* command frames of SpecAttach
AttachEvt == 3   \* forwardCDPEvent frames of SpecAttach
IframeEvt == 5   \* forwardCDPEvent frames of SpecIframe
ReplaySock == 2  \* /cdp sockets of SpecReplay
ReplayCmd == 1   \* command frames of SpecReplay
ReplayEvt == 3   \* forwardCDPEvent frames of SpecReplay
LatchSock == 2   \* /cdp sockets of SpecLatch
LatchCmd == 1    \* command frames of SpecLatch
LatchEvt == 2    \* forwardCDPEvent frames of SpecLatch
GateExt == 1     \* /extension sockets of SpecGate
GateSock == 2    \* /cdp sockets of SpecGate
PairExt == 2     \* /extension sockets of SpecPair
PairSock == 2    \* /cdp sockets of SpecPair
PairEvt == 3     \* forwardCDPEvent frames of SpecPair
NestedCmd == 1   \* command frames of SpecNested
NestedEvt == 2   \* forwardCDPEvent frames of SpecNested
OverlapExt == 2  \* /extension sockets of SpecOverlap
OverlapSock == 2 \* /cdp sockets of SpecOverlap
OverlapCmd == 2  \* command frames of SpecOverlap
ShutdownExt == 1 \* /extension sockets of SpecShutdown
ShutdownSock == 2 \* /cdp sockets of SpecShutdown
ShutdownCmd == 1 \* command frames of SpecShutdown

(* ---------------- value domains ---------------- *)
ExtNames == <<"e1", "e2", "e3", "e4", "e5">>          \* connectionId of the n-th extension socket
ConnKey == [e1 |-> "connection:e1", e2 |-> "connection:e2", e3 |-> "connection:e3",
            e4 |-> "connection:e4", e5 |-> "connection:e5"]
ProfileKey == [p1 |-> "profile:p1", p2 |-> "profile:p2"]
EmailKey == [m1 |-> "email:m1"]
BrowserKey == [chrome |-> "browser:chrome"]
InfoP1 == [browser |-> "chrome", email |-> "m1", id |-> "p1"]
InfoP2 == [browser |-> "chrome", email |-> NULL, id |-> "p2"]
Infos == {InfoP1, InfoP2}
ClientIds == {"a", "b"}
RequestedIds == {NULL, "profile:p1"}

(***************************************************************************)
(* relay-state.ts: the store atom and its pure transition functions.       *)
(* A JS Map is a sequence of entries in insertion order.                   *)
(***************************************************************************)
createRelayStore == [extensions |-> <<>>, playwrightClients |-> <<>>]

ExtHas(exts, id) == \E i \in DOMAIN exts : exts[i].id = id
ExtIdx(exts, id) == CHOOSE i \in DOMAIN exts : exts[i].id = id
ExtGet(exts, id) == exts[ExtIdx(exts, id)]
ExtSet(exts, e) ==
  IF ExtHas(exts, e.id) THEN [exts EXCEPT ![ExtIdx(exts, e.id)] = e] ELSE Append(exts, e)
ExtDelete(exts, id) == SelectSeq(exts, LAMBDA e : e.id # id)

ClientHas(cls, id) == \E i \in DOMAIN cls : cls[i].id = id
ClientIdx(cls, id) == CHOOSE i \in DOMAIN cls : cls[i].id = id
ClientGet(cls, id) == cls[ClientIdx(cls, id)]
ClientSet(cls, c) ==
  IF ClientHas(cls, c.id) THEN [cls EXCEPT ![ClientIdx(cls, c.id)] = c] ELSE Append(cls, c)
ClientDelete(cls, id) == SelectSeq(cls, LAMBDA c : c.id # id)

TargetHas(ts, sid) == \E i \in DOMAIN ts : ts[i].sessionId = sid
TargetIdx(ts, sid) == CHOOSE i \in DOMAIN ts : ts[i].sessionId = sid
TargetGet(ts, sid) == ts[TargetIdx(ts, sid)]
TargetSet(ts, t) ==
  IF TargetHas(ts, t.sessionId) THEN [ts EXCEPT ![TargetIdx(ts, t.sessionId)] = t] ELSE Append(ts, t)
TargetDelete(ts, sid) == SelectSeq(ts, LAMBDA t : t.sessionId # sid)

\* index of the last entry holding the stableKey, 0 when there is none
LastKeyIdx(exts, stableKey) ==
  LET hits == {i \in DOMAIN exts : exts[i].stableKey = stableKey}
  IN IF hits = {} THEN 0 ELSE CHOOSE i \in hits : \A j \in hits : j <= i

\* index of the first entry holding the stableKey, 0 when there is none
FirstKeyIdx(exts, stableKey) ==
  LET hits == {i \in DOMAIN exts : exts[i].stableKey = stableKey}
  IN IF hits = {} THEN 0 ELSE CHOOSE i \in hits : \A j \in hits : i <= j

\* findExtensionByStableKey returning the first match
findExtensionByStableKeyFirst(state, stableKey) ==
  LET i == FirstKeyIdx(state.extensions, stableKey)
  IN IF i = 0 THEN NULL ELSE state.extensions[i].id

findExtensionByStableKey(state, stableKey) ==
  LET i == LastKeyIdx(state.extensions, stableKey)
  IN IF i = 0 THEN NULL ELSE state.extensions[i].id

findExtensionIdByCdpSession(state, cdpSessionId) ==
  LET hits == {i \in DOMAIN state.extensions :
                 TargetHas(state.extensions[i].connectedTargets, cdpSessionId)}
  IN IF hits = {} THEN NULL
     ELSE state.extensions[CHOOSE i \in hits : \A j \in hits : i <= j].id

addExtension(state, id, info, stableKey, ws) ==
  [state EXCEPT !.extensions =
     ExtSet(@, [id |-> id, info |-> info, stableKey |-> stableKey, connectedTargets |-> <<>>,
                ws |-> ws, pendingRequests |-> {}, messageId |-> 0, pingInterval |-> FALSE])]

removeExtension(state, extensionId) ==
  IF ~ExtHas(state.extensions, extensionId) THEN state
  ELSE [extensions |-> ExtDelete(state.extensions, extensionId),
        playwrightClients |-> SelectSeq(state.playwrightClients,
                                        LAMBDA c : c.extensionId # extensionId)]

addPlaywrightClient(state, id, extensionId, ws) ==
  [state EXCEPT !.playwrightClients = ClientSet(@, [id |-> id, extensionId |-> extensionId, ws |-> ws])]

removePlaywrightClient(state, clientId) ==
  IF ~ClientHas(state.playwrightClients, clientId) THEN state
  ELSE [state EXCEPT !.playwrightClients = ClientDelete(@, clientId)]

rebindClientsToExtension(state, fromExtensionId, toExtensionId) ==
  IF fromExtensionId = toExtensionId THEN state
  ELSE [state EXCEPT !.playwrightClients =
          [i \in DOMAIN @ |-> IF @[i].extensionId = fromExtensionId
                              THEN [@[i] EXCEPT !.extensionId = toExtensionId]
                              ELSE @[i]]]

\* only the pingInterval argument is ever passed by the server
updateExtensionIO(state, extensionId, pingInterval) ==
  IF ~ExtHas(state.extensions, extensionId) THEN state
  ELSE [state EXCEPT !.extensions[ExtIdx(state.extensions, extensionId)].pingInterval = pingInterval]

addExtensionPendingRequest(state, extensionId, requestId) ==
  IF ~ExtHas(state.extensions, extensionId) THEN state
  ELSE [state EXCEPT !.extensions[ExtIdx(state.extensions, extensionId)].pendingRequests =
          @ \cup {requestId}]

\* removeExtensionPendingRequest leaving the request pending
removeExtensionPendingRequestKept(state, extensionId, requestId) == state

removeExtensionPendingRequest(state, extensionId, requestId) ==
  IF ~ExtHas(state.extensions, extensionId) THEN state
  ELSE [state EXCEPT !.extensions[ExtIdx(state.extensions, extensionId)].pendingRequests =
          @ \ {requestId}]

\* The next three transitions are called by the server but their bodies are
\* not in relay-state.ts; they follow the unit tests and the refactor plan.
incrementExtensionMessageId(state, extensionId) ==
  IF ~ExtHas(state.extensions, extensionId) THEN state
  ELSE [state EXCEPT !.extensions[ExtIdx(state.extensions, extensionId)].messageId = @ + 1]

clearExtensionPendingRequests(state, extensionId) ==
  IF ~ExtHas(state.extensions, extensionId) THEN state
  ELSE [state EXCEPT !.extensions[ExtIdx(state.extensions, extensionId)].pendingRequests = {}]

removeClientsForExtension(state, extensionId) ==
  [state EXCEPT !.playwrightClients = SelectSeq(@, LAMBDA c : c.extensionId # extensionId)]

\* addTarget starting every target it writes with no frame ids
addTargetFresh(state, extensionId, sessionId, targetId, targetInfo, hasExisting, existingFrameIds) ==
  IF ~ExtHas(state.extensions, extensionId) THEN state
  ELSE [state EXCEPT !.extensions[ExtIdx(state.extensions, extensionId)].connectedTargets =
          TargetSet(@, [sessionId |-> sessionId, targetId |-> targetId,
                        targetInfo |-> targetInfo, frameIds |-> {}])]

\* existingFrameIds is optional in the source: hasExisting says it was passed
addTarget(state, extensionId, sessionId, targetId, targetInfo, hasExisting, existingFrameIds) ==
  IF ~ExtHas(state.extensions, extensionId) THEN state
  ELSE LET ext == ExtGet(state.extensions, extensionId)
           frameIds == IF hasExisting THEN existingFrameIds
                       ELSE IF TargetHas(ext.connectedTargets, sessionId)
                            THEN TargetGet(ext.connectedTargets, sessionId).frameIds
                            ELSE {}
       IN [state EXCEPT !.extensions[ExtIdx(state.extensions, extensionId)].connectedTargets =
             TargetSet(@, [sessionId |-> sessionId, targetId |-> targetId,
                           targetInfo |-> targetInfo, frameIds |-> frameIds])]

\* removeTarget taking the session out of every extension
removeTargetAnyExtension(state, extensionId, sessionId) ==
  [state EXCEPT !.extensions =
     [i \in DOMAIN @ |-> [@[i] EXCEPT !.connectedTargets = TargetDelete(@, sessionId)]]]

removeTarget(state, extensionId, sessionId) ==
  IF ~ExtHas(state.extensions, extensionId) THEN state
  ELSE [state EXCEPT !.extensions[ExtIdx(state.extensions, extensionId)].connectedTargets =
          TargetDelete(@, sessionId)]

\* index of the first target with the targetId, 0 when there is none
FirstTargetIdx(ts, targetId) ==
  LET hits == {i \in DOMAIN ts : ts[i].targetId = targetId}
  IN IF hits = {} THEN 0 ELSE CHOOSE i \in hits : \A j \in hits : i <= j

removeTargetByCrash(state, extensionId, targetId) ==
  IF ~ExtHas(state.extensions, extensionId) THEN state
  ELSE LET ts == ExtGet(state.extensions, extensionId).connectedTargets
           k == FirstTargetIdx(ts, targetId)
       IN IF k = 0 THEN state
          ELSE [state EXCEPT !.extensions[ExtIdx(state.extensions, extensionId)].connectedTargets =
                  TargetDelete(@, ts[k].sessionId)]

\* updateTargetInfo writing the target anew, without its frame ids
updateTargetInfoAnew(state, extensionId, targetInfo) ==
  IF ~ExtHas(state.extensions, extensionId) THEN state
  ELSE LET ts == ExtGet(state.extensions, extensionId).connectedTargets
           k == FirstTargetIdx(ts, targetInfo.targetId)
       IN IF k = 0 THEN state
          ELSE [state EXCEPT
                  !.extensions[ExtIdx(state.extensions, extensionId)].connectedTargets[k] =
                     [@ EXCEPT !.targetInfo = targetInfo, !.frameIds = {}]]

updateTargetInfo(state, extensionId, targetInfo) ==
  IF ~ExtHas(state.extensions, extensionId) THEN state
  ELSE LET ts == ExtGet(state.extensions, extensionId).connectedTargets
           k == FirstTargetIdx(ts, targetInfo.targetId)
       IN IF k = 0 THEN state
          ELSE [state EXCEPT
                  !.extensions[ExtIdx(state.extensions, extensionId)].connectedTargets[k].targetInfo =
                     targetInfo]

addFrameId(state, extensionId, sessionId, frameId) ==
  IF ~ExtHas(state.extensions, extensionId) THEN state
  ELSE LET x == ExtIdx(state.extensions, extensionId)
           ts == state.extensions[x].connectedTargets
       IN IF ~TargetHas(ts, sessionId) THEN state
          ELSE [state EXCEPT !.extensions[x].connectedTargets[TargetIdx(ts, sessionId)].frameIds =
                  @ \cup {frameId}]

\* removes the frame from the first target that holds it
removeFrameId(state, extensionId, frameId) ==
  IF ~ExtHas(state.extensions, extensionId) THEN state
  ELSE LET x == ExtIdx(state.extensions, extensionId)
           ts == state.extensions[x].connectedTargets
           hits == {i \in DOMAIN ts : frameId \in ts[i].frameIds}
       IN IF hits = {} THEN state
          ELSE [state EXCEPT
                  !.extensions[x].connectedTargets[CHOOSE i \in hits : \A j \in hits : i <= j].frameIds =
                     @ \ {frameId}]

\* title is optional in the source: hasTitle says it was passed
updateTargetUrl(state, extensionId, sessionId, url, hasTitle, title) ==
  IF ~ExtHas(state.extensions, extensionId) THEN state
  ELSE LET x == ExtIdx(state.extensions, extensionId)
           ts == state.extensions[x].connectedTargets
       IN IF ~TargetHas(ts, sessionId) THEN state
          ELSE [state EXCEPT !.extensions[x].connectedTargets[TargetIdx(ts, sessionId)].targetInfo =
                  [@ EXCEPT !.url = url, !.title = IF hasTitle THEN title ELSE @]]

(***************************************************************************)
(* Relay server state.                                                     *)
(*   store      the RelayState atom                                        *)
(*   extSock    the /extension sockets accepted so far, in order; the n-th *)
(*              has connectionId ExtNames[n]                               *)
(*   socks      the /cdp sockets accepted so far with the values their     *)
(*              upgradeWebSocket closure holds                             *)
(*   inbox      per /cdp socket, the frames the server wrote to it         *)
(*   tasks      suspended async calls (a driver command awaiting the       *)
(*              extension or the Runtime.enable latch; a server request)   *)
(*   wire       request frames the extensions received and did not answer  *)
(*   cmds       the command frames drivers sent, in order (history)        *)
(*   nEvt       forwardCDPEvent frames received so far                     *)
(*   httpOut    body of the last /json/list response                       *)
(*   autoEnable process.env.PLAYWRITER_AUTO_ENABLE is set                  *)
(*   token      the token the relay was started with, NULL for none         *)
(*   stopped    RelayServer.close() has been called: the http server takes *)
(*              no new connection                                          *)
(***************************************************************************)
VARIABLES store, extSock, socks, inbox, tasks, wire, cmds, nEvt, httpOut, autoEnable, token, stopped

vars == <<store, extSock, socks, inbox, tasks, wire, cmds, nEvt, httpOut, autoEnable, token, stopped>>

\* EXTENSION_IDS of utils.js
EXTENSION_IDS == {"okid"}

startsWith(url, prefix) == Len(url) > 0 /\ url[1] = prefix

NoTargetInfo ==
  [targetId |-> NULL, type |-> NULL, url |-> <<>>, title |-> NULL, parentFrameId |-> NULL,
   attached |-> FALSE]

isRestrictedTarget(targetInfo) ==
  IF targetInfo.type # "page" /\ targetInfo.type # "iframe" THEN TRUE
  ELSE IF targetInfo.url = <<>> THEN FALSE
  ELSE IF startsWith(targetInfo.url, "chrome-extension://")
       THEN targetInfo.url[2] \notin EXTENSION_IDS
  ELSE \E prefix \in {"chrome://", "devtools://", "edge://"} : startsWith(targetInfo.url, prefix)

ExtNum(id) == CHOOSE n \in DOMAIN ExtNames : ExtNames[n] = id

getDefaultExtensionId(state) ==
  IF Len(state.extensions) = 0 THEN NULL ELSE state.extensions[1].id

\* returns the id of the resolved entry, NULL for null
getExtensionConnection(state, extensionId, allowFallback) ==
  LET exts == state.extensions
  IN IF extensionId # NULL
     THEN IF ExtHas(exts, extensionId) /\ ExtGet(exts, extensionId).ws
          THEN extensionId
          ELSE LET byKey == findExtensionByStableKey(state, extensionId)
               IN IF byKey = NULL THEN NULL
                  ELSE LET key == ExtGet(exts, byKey).stableKey
                           cands == {i \in DOMAIN exts : exts[i].stableKey = key /\ exts[i].ws}
                       IN IF cands = {} THEN NULL
                          ELSE exts[CHOOSE i \in cands : \A j \in cands : j <= i].id
     ELSE IF ~allowFallback THEN NULL
     ELSE IF Len(exts) = 1 /\ getDefaultExtensionId(state) # NULL /\ exts[1].ws THEN exts[1].id
     ELSE IF Len(exts) > 1
          THEN LET active == {i \in DOMAIN exts : Len(exts[i].connectedTargets) > 0}
               IN IF Cardinality(active) = 1 /\ exts[CHOOSE i \in active : TRUE].ws
                  THEN exts[CHOOSE i \in active : TRUE].id
                  ELSE NULL
     ELSE NULL

buildStableExtensionKey(info, connectionId) ==
  IF info.id # NULL THEN ProfileKey[info.id]
  ELSE IF info.email # NULL THEN EmailKey[info.email]
  ELSE IF info.browser # NULL THEN BrowserKey[info.browser]
  ELSE ConnKey[connectionId]

getPageTargetForFrameId(extensionState, frameId) ==
  LET ts == extensionState.connectedTargets
      hits == {i \in DOMAIN ts : ts[i].targetInfo.type = "page" /\ frameId \in ts[i].frameIds}
  IN IF hits = {} THEN NULL ELSE ts[CHOOSE i \in hits : \A j \in hits : i <= j].sessionId

startExtensionPing(state, extensionId) ==
  IF ~ExtHas(state.extensions, extensionId) THEN state
  ELSE updateExtensionIO(state, extensionId, TRUE)

stopExtensionPing(state, extensionId) ==
  IF ~ExtHas(state.extensions, extensionId) \/ ~ExtGet(state.extensions, extensionId).pingInterval
  THEN state
  ELSE updateExtensionIO(state, extensionId, FALSE)

(***************************************************************************)
(* Frames written to a driver socket.  src (the extension connection an    *)
(* event came from), bound (the receiving client's extensionId in the      *)
(* store when the frame was written) and clientId are bookkeeping for the  *)
(* properties, as is seq (the position, among the forwardCDPEvent frames   *)
(* the relay has handled, of the one an event was forwarded from); the     *)
(* rest is the frame (targetInfos: result.targetInfos of                   *)
(* Target.getTargets).                                                     *)
(***************************************************************************)
ResponseFrame(id, sessionId, ok, message, rsid) ==
  [kind |-> "response", id |-> id, sessionId |-> sessionId, ok |-> ok, error |-> message,
   method |-> NULL, psid |-> rsid, targetInfo |-> NoTargetInfo, frameId |-> NULL,
   targetInfos |-> <<>>, serverGenerated |-> FALSE, src |-> NULL, bound |-> NULL, clientId |-> NULL,
   seq |-> 0]

EventFrame(method, sessionId, psid, targetInfo, frameId, src) ==
  [kind |-> "event", id |-> 0, sessionId |-> sessionId, ok |-> TRUE, error |-> NULL,
   method |-> method, psid |-> psid, targetInfo |-> targetInfo, frameId |-> frameId,
   targetInfos |-> <<>>, serverGenerated |-> FALSE, src |-> src, bound |-> NULL, clientId |-> NULL,
   seq |-> 0]

\* The context threaded through one handler: every variable a handler or a
\* continuation it wakes can change.
Cur ==
  [store |-> store, extSock |-> extSock, socks |-> socks, inbox |-> inbox,
   tasks |-> tasks, wire |-> wire, cmds |-> cmds]

Commit(c) ==
  /\ store' = c.store
  /\ extSock' = c.extSock
  /\ socks' = c.socks
  /\ inbox' = c.inbox
  /\ tasks' = c.tasks
  /\ wire' = c.wire
  /\ cmds' = c.cmds

safeSendFront(c, client, frame) ==
  IF c.socks[client.ws].state = "open"
  THEN [c EXCEPT !.inbox[client.ws] =
          <<[frame EXCEPT !.bound = client.extensionId, !.clientId = client.id]>> \o @]
  ELSE c

\* client.ws.send inside try/catch: a socket that is not open takes nothing
safeSend(c, client, frame) ==
  IF c.socks[client.ws].state = "open"
  THEN [c EXCEPT !.inbox[client.ws] =
          Append(@, [frame EXCEPT !.bound = client.extensionId, !.clientId = client.id])]
  ELSE c

RECURSIVE SendEachUnfiltered(_, _, _, _)
SendEachUnfiltered(c, i, frame, extensionId) ==
  IF i > Len(c.store.playwrightClients) THEN c
  ELSE SendEachUnfiltered(safeSend(c, c.store.playwrightClients[i], frame), i + 1, frame, extensionId)

RECURSIVE SendEach(_, _, _, _)
SendEach(c, i, frame, extensionId) ==
  IF i > Len(c.store.playwrightClients) THEN c
  ELSE LET client == c.store.playwrightClients[i]
       IN SendEach(IF extensionId # NULL /\ client.extensionId # extensionId
                   THEN c ELSE safeSend(c, client, frame),
                   i + 1, frame, extensionId)

BroadcastUnfiltered(c, frame, extensionId) == SendEachUnfiltered(c, 1, frame, extensionId)

Broadcast(c, frame, extensionId) == SendEach(c, 1, frame, extensionId)

sendToPlaywright(c, frame, clientId, source, extensionId) ==
  LET toSend == IF source = "server" /\ frame.kind = "event"
                THEN [frame EXCEPT !.serverGenerated = TRUE] ELSE frame
  IN IF clientId # NULL
     THEN IF ClientHas(c.store.playwrightClients, clientId)
          THEN safeSend(c, ClientGet(c.store.playwrightClients, clientId), toSend)
          ELSE c
     ELSE Broadcast(c, toSend, extensionId)

(***************************************************************************)
(* sendToExtension.  The request is written on the resolved entry's        *)
(* socket; a socket that is not open either throws on send (sendThrows) or *)
(* drops the frame.  The result names the pending request the caller now   *)
(* awaits, or the error thrown before any await.                           *)
(***************************************************************************)
\* sendToExtension with the messageId transition left out
sendToExtensionSameId(c, extensionId, method, sessionId, sendThrows) ==
  LET conn == getExtensionConnection(c.store, extensionId, FALSE)
  IN IF conn = NULL
     THEN [c |-> c, thrown |-> "Extension not connected", reqExt |-> NULL, reqId |-> 0]
     ELSE LET id == ExtGet(c.store.extensions, conn).messageId + 1
              s2 == addExtensionPendingRequest(c.store, conn, id)
              isOpen == c.extSock[ExtNum(conn)].state = "open"
              frame == [ext |-> conn, id |-> id, method |-> method, sessionId |-> sessionId]
          IN IF ~isOpen /\ sendThrows
             THEN [c |-> [c EXCEPT !.store = removeExtensionPendingRequest(s2, conn, id)],
                   thrown |-> "Extension send failed", reqExt |-> NULL, reqId |-> 0]
             ELSE [c |-> [c EXCEPT !.store = s2,
                                   !.wire = IF isOpen THEN @ \cup {frame} ELSE @],
                   thrown |-> NULL, reqExt |-> conn, reqId |-> id]

sendToExtension(c, extensionId, method, sessionId, sendThrows) ==
  LET conn == getExtensionConnection(c.store, extensionId, FALSE)
  IN IF conn = NULL
     THEN [c |-> c, thrown |-> "Extension not connected", reqExt |-> NULL, reqId |-> 0]
     ELSE LET id == ExtGet(c.store.extensions, conn).messageId + 1
              s1 == incrementExtensionMessageId(c.store, conn)
              s2 == addExtensionPendingRequest(s1, conn, id)
              isOpen == c.extSock[ExtNum(conn)].state = "open"
              frame == [ext |-> conn, id |-> id, method |-> method, sessionId |-> sessionId]
          IN IF ~isOpen /\ sendThrows
             THEN [c |-> [c EXCEPT !.store = removeExtensionPendingRequest(s2, conn, id)],
                   thrown |-> "Extension send failed", reqExt |-> NULL, reqId |-> 0]
             ELSE [c |-> [c EXCEPT !.store = s2,
                                   !.wire = IF isOpen THEN @ \cup {frame} ELSE @],
                   thrown |-> NULL, reqExt |-> conn, reqId |-> id]

\* a suspended call; cmd is the index of the driver command in cmds, 0 for a
\* request the server makes on its own
Task(cmd, sock, clientId, method, sessionId, targetId, extId) ==
  [cmd |-> cmd, sock |-> sock, clientId |-> clientId, method |-> method,
   sessionId |-> sessionId, targetId |-> targetId, extId |-> extId,
   stage |-> "start", reqExt |-> NULL, reqId |-> 0, latch |-> "none"]

AttachedFrame(target, psid) ==
  EventFrame("Target.attachedToTarget", NULL, psid, [target.targetInfo EXCEPT !.attached = TRUE],
             NULL, NULL)

\* /cdp onMessage, after routeCdpCommand returned for Target.setAutoAttach
RECURSIVE ReplayAttached(_, _, _, _)
ReplayAttached(c, ts, i, clientId) ==
  IF i > Len(ts) THEN c
  ELSE ReplayAttached(IF isRestrictedTarget(ts[i].targetInfo) THEN c
                      ELSE sendToPlaywright(c, AttachedFrame(ts[i], ts[i].sessionId), clientId, "server", NULL),
                      ts, i + 1, clientId)

FreshTargets(c, extId) ==
  IF ExtHas(c.store.extensions, extId) THEN ExtGet(c.store.extensions, extId).connectedTargets ELSE <<>>

\* /cdp onMessage, after routeCdpCommand returned for Target.attachToTarget
EmitAttachToTarget(c, t, rsid) ==
  LET ts == FreshTargets(c, t.extId)
      k == FirstTargetIdx(ts, t.targetId)
  IN IF k = 0 THEN c
     ELSE sendToPlaywright(c, AttachedFrame(ts[k], rsid), t.clientId, "server", NULL)

\* /cdp onMessage, after routeCdpCommand returned for Target.setDiscoverTargets
\* (discover is true in every such command of the model)
RECURSIVE ReplayCreated(_, _, _, _)
ReplayCreated(c, ts, i, clientId) ==
  IF i > Len(ts) THEN c
  ELSE ReplayCreated(IF isRestrictedTarget(ts[i].targetInfo) THEN c
                     ELSE sendToPlaywright(c, EventFrame("Target.targetCreated", NULL, NULL,
                                                         [ts[i].targetInfo EXCEPT !.attached = TRUE],
                                                         NULL, NULL),
                                           clientId, "server", NULL),
                     ts, i + 1, clientId)

\* /cdp onMessage from the return (or throw) of routeCdpCommand to its end;
\* targetInfos is result.targetInfos
FinishWith(c, t, ok, message, rsid, targetInfos) ==
  LET c1 == IF ok /\ t.method = "Target.setAutoAttach" /\ t.sessionId = NULL
            THEN ReplayAttached(c, FreshTargets(c, t.extId), 1, t.clientId)
            ELSE IF ok /\ t.method = "Target.setDiscoverTargets"
            THEN ReplayCreated(c, FreshTargets(c, t.extId), 1, t.clientId)
            ELSE IF ok /\ t.method = "Target.attachToTarget" /\ rsid # NULL
            THEN EmitAttachToTarget(c, t, rsid)
            ELSE c
      c2 == sendToPlaywright(c1, [ResponseFrame(t.cmd, t.sessionId, ok, message, rsid)
                                    EXCEPT !.targetInfos = targetInfos],
                             t.clientId, "extension", NULL)
  IN [c2 EXCEPT !.cmds[t.cmd].state = "done"]

Finish(c, t, ok, message, rsid) == FinishWith(c, t, ok, message, rsid, <<>>)

\* Target.getTargets without the filter
getTargetsUnfiltered(connectedTargets) ==
  [i \in DOMAIN connectedTargets |-> [connectedTargets[i].targetInfo EXCEPT !.attached = TRUE]]

\* the targetInfos of Target.getTargets
getTargets(connectedTargets) ==
  LET visible == SelectSeq(connectedTargets, LAMBDA x : ~isRestrictedTarget(x.targetInfo))
  IN [i \in DOMAIN visible |-> [visible[i].targetInfo EXCEPT !.attached = TRUE]]

\* the forwardCDPCommand request of routeCdpCommand and the await on it
Forward(c, t, sendThrows) ==
  LET r == sendToExtension(c, t.extId, t.method, t.sessionId, sendThrows)
  IN IF r.thrown # NULL THEN Finish(r.c, t, FALSE, r.thrown, NULL)
     ELSE [r.c EXCEPT !.tasks = @ \cup {[t EXCEPT !.stage = "ext", !.reqExt = r.reqExt,
                                                  !.reqId = r.reqId]}]

\* maybeAutoCreateInitialTab up to its await; errors are caught and the
\* caller goes on to forward Target.setAutoAttach
maybeAutoCreateInitialTab(c, t, sendThrows) ==
  LET conn == getExtensionConnection(c.store, t.extId, FALSE)
  IN IF ~autoEnable \/ conn = NULL THEN Forward(c, t, sendThrows)
     ELSE IF Len(ExtGet(c.store.extensions, conn).connectedTargets) > 0 THEN Forward(c, t, sendThrows)
     ELSE LET r == sendToExtension(c, t.extId, "createInitialTab", NULL, sendThrows)
          IN IF r.thrown # NULL THEN Forward(r.c, t, sendThrows)
             ELSE [r.c EXCEPT !.tasks = @ \cup {[t EXCEPT !.stage = "initTab", !.reqExt = r.reqExt,
                                                          !.reqId = r.reqId]}]

\* routeCdpCommand from its entry to its first await (or its return)
routeCdpCommand(c, t, sendThrows) ==
  LET conn == getExtensionConnection(c.store, t.extId, FALSE)
      connectedTargets == IF conn = NULL THEN <<>> ELSE ExtGet(c.store.extensions, conn).connectedTargets
  IN CASE t.method = "Browser.getVersion" -> Finish(c, t, TRUE, NULL, NULL)
       [] t.method = "Target.setDiscoverTargets" -> Finish(c, t, TRUE, NULL, NULL)
       [] t.method = "Target.getTargets" ->
            FinishWith(c, t, TRUE, NULL, NULL, getTargets(connectedTargets))
       [] t.method = "Target.setAutoAttach" /\ t.sessionId = NULL ->
            maybeAutoCreateInitialTab(c, t, sendThrows)
       [] t.method = "Target.attachToTarget" ->
            IF t.targetId = NULL THEN Finish(c, t, FALSE, "targetId is required for Target.attachToTarget", NULL)
            ELSE IF FirstTargetIdx(connectedTargets, t.targetId) = 0
                 THEN Finish(c, t, FALSE,
                             "Target " \o t.targetId \o " not found in connected targets", NULL)
                 ELSE Finish(c, t, TRUE, NULL,
                             connectedTargets[FirstTargetIdx(connectedTargets, t.targetId)].sessionId)
       [] t.method = "Runtime.enable" /\ t.sessionId # NULL ->
            Forward(c, [t EXCEPT !.latch = "waiting"], sendThrows)
       [] OTHER -> Forward(c, t, sendThrows)

\* what the extension answers to createInitialTab
InitTabResult(success, sessionId, targetInfo) ==
  [success |-> success, sessionId |-> sessionId, targetInfo |-> targetInfo]

NoResult == InitTabResult(FALSE, NULL, NoTargetInfo)

\* the continuation of the await of task t (already taken out of c.tasks)
\* when its pending request is resolved (ok) or rejected
OnSettle(c, t, ok, message, res, sendThrows) ==
  CASE t.stage = "initTab" ->
         Forward(IF ok /\ res.success /\ res.sessionId # NULL /\ res.targetInfo # NoTargetInfo
                 THEN [c EXCEPT !.store = addTarget(@, t.extId, res.sessionId, res.targetInfo.targetId,
                                                    res.targetInfo, FALSE, {})]
                 ELSE c,
                 t, sendThrows)
    [] t.stage = "ext" ->
         IF ~ok THEN Finish(c, t, FALSE, message, NULL)
         ELSE IF t.latch = "waiting" THEN [c EXCEPT !.tasks = @ \cup {[t EXCEPT !.stage = "latch"]}]
         ELSE Finish(c, t, TRUE, NULL, NULL)
    [] OTHER -> c

\* RejectAll with the rejections left out
RejectNone(c, waiting, message, sendThrows) == c

\* reject(error) for every request in reqs (ascending id: Map order), then
\* the continuations in that order
RECURSIVE RejectAll(_, _, _, _)
RejectAll(c, waiting, message, sendThrows) ==
  IF waiting = {} THEN c
  ELSE LET t == CHOOSE x \in waiting : \A y \in waiting : x.reqId <= y.reqId
       IN RejectAll(OnSettle(c, t, FALSE, message, NoResult, sendThrows),
                    waiting \ {t}, message, sendThrows)

(***************************************************************************)
(* Initial state: the server has started, nothing is connected.            *)
(***************************************************************************)
Init ==
  /\ store = createRelayStore
  /\ extSock = <<>>
  /\ socks = <<>>
  /\ inbox = <<>>
  /\ tasks = {}
  /\ wire = {}
  /\ cmds = <<>>
  /\ nEvt = 0
  /\ httpOut = <<>>
  /\ autoEnable = FALSE
  /\ token = NULL
  /\ stopped = FALSE

CloseSock(sockets, n, code) ==
  IF sockets[n].state = "open"
  THEN [sockets EXCEPT ![n] = [state |-> "closing", closeCode |-> code]]
  ELSE sockets

(***************************************************************************)
(* /extension socket handlers                                              *)
(***************************************************************************)
\* /extension onOpen, with the connectionId its upgrade closure generated
ExtensionOpen(info, maxExt) ==
  /\ ~stopped
  /\ Len(extSock) < maxExt
  /\ LET connectionId == ExtNames[Len(extSock) + 1]
         stableKey == buildStableExtensionKey(info, connectionId)
         existingExt == findExtensionByStableKey(store, stableKey)
         socks1 == Append(extSock, [state |-> "open", closeCode |-> 0])
         socks2 == IF existingExt # NULL /\ existingExt # connectionId
                      /\ ExtGet(store.extensions, existingExt).ws
                   THEN CloseSock(socks1, ExtNum(existingExt), 4001)
                   ELSE socks1
     IN /\ extSock' = socks2
        /\ store' = startExtensionPing(addExtension(store, connectionId, info, stableKey, TRUE),
                                       connectionId)
  /\ UNCHANGED <<socks, inbox, tasks, wire, cmds, nEvt, httpOut, autoEnable, token, stopped>>

\* first other entry with the closing entry's stableKey, NULL when none
SuccessorExtension(state, connectionId) ==
  IF ~ExtHas(state.extensions, connectionId) THEN NULL
  ELSE LET exts == state.extensions
           key == ExtGet(exts, connectionId).stableKey
           hits == {i \in DOMAIN exts : exts[i].id # connectionId /\ exts[i].stableKey = key}
       IN IF hits = {} THEN NULL ELSE exts[CHOOSE i \in hits : \A j \in hits : i <= j].id

\* CloseClientsOf closing no socket
CloseClientsNone(sockets, cls, i, connectionId) == sockets

RECURSIVE CloseClientsOf(_, _, _, _)
CloseClientsOf(sockets, cls, i, connectionId) ==
  IF i > Len(cls) THEN sockets
  ELSE CloseClientsOf(IF cls[i].extensionId = connectionId
                      THEN [sockets EXCEPT ![cls[i].ws] =
                              IF @.state = "open" THEN [@ EXCEPT !.state = "closing", !.closeCode = 1000]
                              ELSE @]
                      ELSE sockets,
                      cls, i + 1, connectionId)

\* /extension onClose: the handler body, then the continuations of the
\* requests it rejected
ExtensionCloseCtx(c, connectionId, sendThrows) ==
  LET has == ExtHas(c.store.extensions, connectionId)
      rejected == IF has
                  THEN {t \in c.tasks : t.reqExt = connectionId /\ t.stage \in {"initTab", "ext", "server"}
                          /\ t.reqId \in ExtGet(c.store.extensions, connectionId).pendingRequests}
                  ELSE {}
      s1 == IF has THEN clearExtensionPendingRequests(stopExtensionPing(c.store, connectionId), connectionId)
            ELSE c.store
      successorExtension == SuccessorExtension(s1, connectionId)
      s2 == IF successorExtension # NULL
            THEN rebindClientsToExtension(s1, connectionId, successorExtension)
            ELSE s1
      socks2 == IF successorExtension = NULL
                THEN CloseClientsOf(c.socks, s2.playwrightClients, 1, connectionId)
                ELSE c.socks
      s3 == removeClientsForExtension(removeExtension(s2, connectionId), connectionId)
      c1 == [c EXCEPT !.store = s3, !.socks = socks2, !.tasks = @ \ rejected,
                      !.extSock[ExtNum(connectionId)].state = "closed",
                      !.wire = {f \in @ : f.ext # connectionId}]
  IN RejectAll(c1, rejected, "Extension connection closed", sendThrows)

ExtensionClose(n, sendThrows) ==
  /\ n \in DOMAIN extSock
  /\ extSock[n].state \in {"open", "closing"}
  /\ Commit(ExtensionCloseCtx(Cur, ExtNames[n], sendThrows))
  /\ UNCHANGED <<nEvt, httpOut, autoEnable, token, stopped>>

\* ExtensionResponse looking the id up in the pendingRequests of every entry
ExtensionResponseAnyConnection(f, isError, res, sendThrows) ==
  /\ f \in wire
  /\ extSock[ExtNum(f.ext)].state \in {"open", "closing"}
  /\ LET c0 == [Cur EXCEPT !.wire = @ \ {f}]
         holders == {i \in DOMAIN store.extensions : f.id \in store.extensions[i].pendingRequests}
     IN IF ~ExtHas(store.extensions, f.ext)
        THEN Commit([c0 EXCEPT !.extSock = CloseSock(@, ExtNum(f.ext), 1000)])
        ELSE IF holders = {}
        THEN Commit(c0)
        ELSE LET conn == store.extensions[CHOOSE i \in holders : \A j \in holders : i <= j].id
                 waiting == {t \in tasks : t.reqExt = conn /\ t.reqId = f.id
                               /\ t.stage \in {"initTab", "ext", "server"}}
                 c1 == [c0 EXCEPT !.store = removeExtensionPendingRequest(@, conn, f.id),
                                  !.tasks = @ \ waiting]
             IN Commit(IF waiting = {} THEN c1
                       ELSE OnSettle(c1, CHOOSE t \in waiting : TRUE, ~isError,
                                     "extension error", res, sendThrows))
  /\ UNCHANGED <<nEvt, httpOut, autoEnable, token, stopped>>

\* /extension onMessage for a frame with an id: the response to a request
\* the extension received
ExtensionResponse(f, isError, res, sendThrows) ==
  /\ f \in wire
  /\ extSock[ExtNum(f.ext)].state \in {"open", "closing"}
  /\ LET c0 == [Cur EXCEPT !.wire = @ \ {f}]
     IN IF ~ExtHas(store.extensions, f.ext)
        THEN Commit([c0 EXCEPT !.extSock = CloseSock(@, ExtNum(f.ext), 1000)])
        ELSE IF f.id \notin ExtGet(store.extensions, f.ext).pendingRequests
        THEN Commit(c0)
        ELSE LET waiting == {t \in tasks : t.reqExt = f.ext /\ t.reqId = f.id
                               /\ t.stage \in {"initTab", "ext", "server"}}
                 c1 == [c0 EXCEPT !.store = removeExtensionPendingRequest(@, f.ext, f.id),
                                  !.tasks = @ \ waiting]
             IN Commit(IF waiting = {} THEN c1
                       ELSE OnSettle(c1, CHOOSE t \in waiting : TRUE, ~isError,
                                     "extension error", res, sendThrows))
  /\ UNCHANGED <<nEvt, httpOut, autoEnable, token, stopped>>

\* the timer of sendToExtension fires for a request still awaited
RequestTimeout(t, sendThrows) ==
  /\ t \in tasks
  /\ t.stage \in {"initTab", "ext", "server"}
  /\ Commit(OnSettle([Cur EXCEPT !.store = removeExtensionPendingRequest(@, t.reqExt, t.reqId),
                                 !.tasks = @ \ {t}],
                     t, FALSE, "Extension request timeout", NoResult, sendThrows))
  /\ UNCHANGED <<nEvt, httpOut, autoEnable, token, stopped>>

\* the 3 s timer of the Runtime.enable latch fires
LatchTimeout(t) ==
  /\ t \in tasks
  /\ t.latch = "waiting"
  /\ LET t1 == [t EXCEPT !.latch = "seen"]
         c0 == [Cur EXCEPT !.tasks = @ \ {t}]
     IN Commit(IF t.stage = "latch" THEN Finish(c0, t1, TRUE, NULL, NULL)
               ELSE [c0 EXCEPT !.tasks = @ \cup {t1}])
  /\ UNCHANGED <<nEvt, httpOut, autoEnable, token, stopped>>

(***************************************************************************)
(* /extension onMessage for a forwardCDPEvent frame.  ev carries the       *)
(* fields the handler reads: method, sessionId (of the frame), psid        *)
(* (params.sessionId), targetInfo, waitingForDebugger, frameId, hasParent  *)
(* (frame.parentId), url, hasName and name (frame.name), isDefault         *)
(* (context.auxData.isDefault).                                            *)
(***************************************************************************)
TargetInfo(targetId, type, url, parentFrameId) ==
  [targetId |-> targetId, type |-> type, url |-> url, title |-> NULL, parentFrameId |-> parentFrameId,
   attached |-> FALSE]

Event(method, sessionId, psid, targetInfo, frameId, url) ==
  [method |-> method, sessionId |-> sessionId, psid |-> psid, targetInfo |-> targetInfo,
   waitingForDebugger |-> FALSE, frameId |-> frameId, hasParent |-> FALSE, url |-> url,
   hasName |-> FALSE, name |-> NULL, isDefault |-> TRUE]

\* the body of the event as it is forwarded
Forwarded(ev, sessionId, connectionId) ==
  [EventFrame(ev.method, sessionId, ev.psid, ev.targetInfo, ev.frameId, connectionId)
     EXCEPT !.seq = nEvt + 1]

\* the Target.attachedToTarget branch dropping a restricted target without
\* resuming it
OnAttachedToTargetNoResume(c, connectionId, ev, sendThrows) ==
  LET currentExtState == ExtGet(c.store.extensions, connectionId)
      iframeOwnerSessionId ==
        IF ev.targetInfo.type = "iframe" /\ ev.targetInfo.parentFrameId # NULL
        THEN getPageTargetForFrameId(currentExtState, ev.targetInfo.parentFrameId)
        ELSE NULL
  IN IF isRestrictedTarget(ev.targetInfo) THEN c
     ELSE LET alreadyConnected == TargetHas(currentExtState.connectedTargets, ev.psid)
              c1 == [c EXCEPT !.store = addTarget(@, connectionId, ev.psid, ev.targetInfo.targetId,
                                                  ev.targetInfo, FALSE, {})]
          IN IF alreadyConnected THEN c1
             ELSE sendToPlaywright(c1,
                    Forwarded(ev, IF iframeOwnerSessionId # NULL THEN iframeOwnerSessionId
                                  ELSE ev.sessionId, connectionId),
                    NULL, "extension", connectionId)

\* the Target.attachedToTarget branch
OnAttachedToTarget(c, connectionId, ev, sendThrows) ==
  LET currentExtState == ExtGet(c.store.extensions, connectionId)
      iframeOwnerSessionId ==
        IF ev.targetInfo.type = "iframe" /\ ev.targetInfo.parentFrameId # NULL
        THEN getPageTargetForFrameId(currentExtState, ev.targetInfo.parentFrameId)
        ELSE NULL
  IN IF isRestrictedTarget(ev.targetInfo)
     THEN IF ev.waitingForDebugger /\ ev.psid # NULL
          THEN LET r == sendToExtension(c, connectionId, "Runtime.runIfWaitingForDebugger",
                                        ev.psid, sendThrows)
               IN IF r.thrown # NULL THEN r.c
                  ELSE [r.c EXCEPT !.tasks = @ \cup
                          {[Task(0, 0, NULL, "Runtime.runIfWaitingForDebugger", ev.psid, NULL, connectionId)
                              EXCEPT !.stage = "server", !.reqExt = r.reqExt, !.reqId = r.reqId]}]
          ELSE c
     ELSE LET alreadyConnected == TargetHas(currentExtState.connectedTargets, ev.psid)
              c1 == [c EXCEPT !.store = addTarget(@, connectionId, ev.psid, ev.targetInfo.targetId,
                                                  ev.targetInfo, FALSE, {})]
          IN IF alreadyConnected THEN c1
             ELSE sendToPlaywright(c1,
                    Forwarded(ev, IF iframeOwnerSessionId # NULL THEN iframeOwnerSessionId
                                  ELSE ev.sessionId, connectionId),
                    NULL, "extension", connectionId)

\* the state transition of each branch of the handler
EventTransition(state, connectionId, ev) ==
  CASE ev.method = "Target.detachedFromTarget" -> removeTarget(state, connectionId, ev.psid)
    [] ev.method = "Target.targetCrashed" -> removeTargetByCrash(state, connectionId, ev.targetInfo.targetId)
    [] ev.method = "Target.targetInfoChanged" -> updateTargetInfo(state, connectionId, ev.targetInfo)
    [] ev.method = "Page.frameAttached" ->
         IF ev.sessionId # NULL THEN addFrameId(state, connectionId, ev.sessionId, ev.frameId) ELSE state
    [] ev.method = "Page.frameDetached" -> removeFrameId(state, connectionId, ev.frameId)
    [] ev.method = "Page.frameNavigated" ->
         LET s1 == IF ev.sessionId # NULL
                   THEN addFrameId(state, connectionId, ev.sessionId, ev.frameId) ELSE state
         IN IF ~ev.hasParent /\ ev.sessionId # NULL
            THEN updateTargetUrl(s1, connectionId, ev.sessionId, ev.url, ev.hasName, ev.name)
            ELSE s1
    [] ev.method = "Page.navigatedWithinDocument" ->
         IF ev.sessionId # NULL
         THEN updateTargetUrl(state, connectionId, ev.sessionId, ev.url, FALSE, NULL) ELSE state
    [] OTHER -> state

\* the continuations of the Runtime.enable calls whose latch the event opened
RECURSIVE FinishAll(_, _)
FinishAll(c, woken) ==
  IF woken = {} THEN c
  ELSE LET t == CHOOSE x \in woken : \A y \in woken : x.cmd <= y.cmd
       IN FinishAll(Finish(c, [t EXCEPT !.latch = "seen"], TRUE, NULL, NULL), woken \ {t})

forwardCDPEvent(c, connectionId, ev, sendThrows) ==
  LET opened == {t \in c.tasks : /\ t.latch = "waiting"
                                 /\ ev.method = "Runtime.executionContextCreated"
                                 /\ ev.sessionId = t.sessionId
                                 /\ ev.isDefault}
      woken == {t \in opened : t.stage = "latch"}
      c0 == [c EXCEPT !.tasks = (@ \ opened) \cup
                                {[t EXCEPT !.latch = "seen"] : t \in opened \ woken}]
      c1 == IF ev.method = "Target.attachedToTarget"
            THEN OnAttachedToTarget(c0, connectionId, ev, sendThrows)
            ELSE sendToPlaywright([c0 EXCEPT !.store = EventTransition(@, connectionId, ev)],
                                  Forwarded(ev,
                                            IF ev.method \in {"Target.detachedFromTarget",
                                                              "Target.targetCrashed",
                                                              "Target.targetInfoChanged"}
                                            THEN NULL ELSE ev.sessionId,
                                            connectionId),
                                  NULL, "extension", connectionId)
  IN FinishAll(c1, woken)

ExtensionEvent(n, ev, sendThrows, maxEvt) ==
  /\ n \in DOMAIN extSock
  /\ extSock[n].state \in {"open", "closing"}
  /\ ExtHas(store.extensions, ExtNames[n])
  /\ nEvt < maxEvt
  /\ Commit(forwardCDPEvent(Cur, ExtNames[n], ev, sendThrows))
  /\ nEvt' = nEvt + 1
  /\ UNCHANGED <<httpOut, autoEnable, token, stopped>>

(***************************************************************************)
(* /cdp socket handlers                                                    *)
(***************************************************************************)
\* the upgradeWebSocket callback of /cdp/:clientId?
DriverUpgrade(clientId, requestedExtensionId, maxSock) ==
  /\ ~stopped
  /\ Len(socks) < maxSock
  /\ LET resolvedExtension == IF requestedExtensionId # NULL
                              THEN getExtensionConnection(store, requestedExtensionId, FALSE)
                              ELSE getExtensionConnection(store, NULL, TRUE)
     IN socks' = Append(socks, [state |-> "upgraded", closeCode |-> 0, clientId |-> clientId,
                                clientExtensionId |-> resolvedExtension])
  /\ inbox' = Append(inbox, <<>>)
  /\ UNCHANGED <<store, extSock, tasks, wire, cmds, nEvt, httpOut, autoEnable, token, stopped>>

DriverOpen(s) ==
  /\ s \in DOMAIN socks
  /\ socks[s].state = "upgraded"
  /\ IF ClientHas(store.playwrightClients, socks[s].clientId)
     THEN /\ socks' = [socks EXCEPT ![s].state = "closing", ![s].closeCode = 4004]
          /\ store' = store
     ELSE IF socks[s].clientExtensionId = NULL
     THEN /\ socks' = [socks EXCEPT ![s].state = "closing", ![s].closeCode = 4003]
          /\ store' = store
     ELSE /\ socks' = [socks EXCEPT ![s].state = "open"]
          /\ store' = addPlaywrightClient(store, socks[s].clientId, socks[s].clientExtensionId, s)
  /\ UNCHANGED <<extSock, inbox, tasks, wire, cmds, nEvt, httpOut, autoEnable, token, stopped>>

DriverMessageCtx(c, s, method, sessionId, targetId, sendThrows) ==
  LET id == Len(c.cmds) + 1
      clientId == c.socks[s].clientId
      c0 == [c EXCEPT !.cmds = Append(@, [sock |-> s, clientId |-> clientId, method |-> method,
                                          sessionId |-> sessionId, targetId |-> targetId,
                                          state |-> "pending"])]
      extensionConn == getExtensionConnection(c.store, c.socks[s].clientExtensionId, FALSE)
  IN IF extensionConn = NULL
     THEN [sendToPlaywright(c0, ResponseFrame(id, sessionId, FALSE, "Extension not connected", NULL),
                            clientId, "extension", NULL)
             EXCEPT !.cmds[id].state = "done"]
     ELSE routeCdpCommand(c0, Task(id, s, clientId, method, sessionId, targetId, extensionConn),
                          sendThrows)

DriverMessage(s, method, sessionId, targetId, sendThrows, maxCmd) ==
  /\ s \in DOMAIN socks
  /\ socks[s].state \in {"open", "closing"}
  /\ Len(cmds) < maxCmd
  /\ Commit(DriverMessageCtx(Cur, s, method, sessionId, targetId, sendThrows))
  /\ UNCHANGED <<nEvt, httpOut, autoEnable, token, stopped>>

DriverClose(s) ==
  /\ s \in DOMAIN socks
  /\ socks[s].state \in {"open", "closing"}
  /\ socks' = [socks EXCEPT ![s].state = "closed"]
  /\ store' = removePlaywrightClient(store, socks[s].clientId)
  /\ UNCHANGED <<extSock, inbox, tasks, wire, cmds, nEvt, httpOut, autoEnable, token, stopped>>

(***************************************************************************)
(* GET /json/list (and /json, /json/, /json/list/: the same handler body)  *)
(***************************************************************************)
JsonList(state) ==
  LET conn == getExtensionConnection(state, NULL, TRUE)
      defaultTargets == IF conn = NULL THEN <<>> ELSE ExtGet(state.extensions, conn).connectedTargets
  IN [i \in DOMAIN defaultTargets |->
        [id |-> defaultTargets[i].targetId, type |-> defaultTargets[i].targetInfo.type,
         title |-> defaultTargets[i].targetInfo.title, url |-> defaultTargets[i].targetInfo.url]]

HttpJsonList ==
  /\ ~stopped
  /\ httpOut' = JsonList(store)
  /\ UNCHANGED <<store, extSock, socks, inbox, tasks, wire, cmds, nEvt, autoEnable, token, stopped>>

(***************************************************************************)
(* The gates in front of /cdp, /extension and the privileged routes.  A    *)
(* header that is split by the gate is a record: present is FALSE when the *)
(* request has no such header, pieces is the value as the sequence of its  *)
(* pieces (<<>> is the empty string).  Tokens, query values and headers    *)
(* that are only compared are strings, NULL when absent.                   *)
(***************************************************************************)
Header(pieces) == [present |-> TRUE, pieces |-> pieces]

NoHeader == [present |-> FALSE, pieces |-> <<>>]

\* JavaScript truthiness of c.req.header(name)
truthy(header) == header.present /\ header.pieces # <<>>

\* the pieces as one string
RECURSIVE join(_)
join(str) == IF str = <<>> THEN "" ELSE str[1] \o join(Tail(str))

FirstPiece(str, piece) ==
  IF \E i \in DOMAIN str : str[i] = piece
  THEN CHOOSE i \in DOMAIN str : str[i] = piece /\ \A j \in 1..(i - 1) : str[j] # piece
  ELSE 0

\* str.replace(piece, ''): the first occurrence is taken out
replace(str, piece) ==
  LET i == FirstPiece(str, piece)
  IN IF i = 0 THEN str ELSE SubSeq(str, 1, i - 1) \o SubSeq(str, i + 1, Len(str))

\* str.includes(piece)
includes(str, piece) == FirstPiece(str, piece) # 0

\* the handler was reached
NEXT == 0

\* cdpGate without the token check
cdpGateNoToken(origin, providedToken) ==
  IF truthy(origin) /\ startsWith(origin.pieces, "chrome-extension://")
     /\ join(replace(origin.pieces, "chrome-extension://")) \notin EXTENSION_IDS
  THEN 403
  ELSE IF truthy(origin) /\ ~startsWith(origin.pieces, "chrome-extension://") THEN 403
  ELSE NEXT

\* the middleware of /cdp/:clientId?
cdpGate(origin, providedToken) ==
  IF truthy(origin) /\ startsWith(origin.pieces, "chrome-extension://")
     /\ join(replace(origin.pieces, "chrome-extension://")) \notin EXTENSION_IDS
  THEN 403
  ELSE IF truthy(origin) /\ ~startsWith(origin.pieces, "chrome-extension://") THEN 403
  ELSE IF token # NULL /\ token # "" /\ providedToken # token THEN 401
  ELSE NEXT

\* extensionGate with the Origin required only to start with the scheme
extensionGateAnyId(remoteAddress, origin) ==
  IF ~(remoteAddress = "127.0.0.1" \/ remoteAddress = "::1") THEN 403
  ELSE IF ~truthy(origin) \/ ~startsWith(origin.pieces, "chrome-extension://") THEN 403
  ELSE NEXT

\* the middleware of /extension
extensionGate(remoteAddress, origin) ==
  IF ~(remoteAddress = "127.0.0.1" \/ remoteAddress = "::1") THEN 403
  ELSE IF ~truthy(origin) \/ ~startsWith(origin.pieces, "chrome-extension://") THEN 403
  ELSE IF join(replace(origin.pieces, "chrome-extension://")) \notin EXTENSION_IDS THEN 403
  ELSE NEXT

\* authHeader.startsWith('Bearer ') ? authHeader.slice(7) : null
bearerToken(authorization) ==
  IF startsWith(authorization.pieces, "Bearer ") THEN join(Tail(authorization.pieces)) ELSE NULL

privilegedRouteMiddleware(method, secFetchSite, contentType, authorization, queryToken) ==
  IF secFetchSite # NULL /\ secFetchSite # "" /\ secFetchSite # "same-origin" /\ secFetchSite # "none"
  THEN 403
  ELSE IF method = "POST" /\ ~includes(contentType.pieces, "application/json")
  THEN 415
  ELSE IF token # NULL /\ token # "" /\ bearerToken(authorization) # token /\ queryToken # token
  THEN 401
  ELSE NEXT

\* a request that ends at a gate or at an HTTP route: the status of the
\* response and, for a privileged route, what the gate read of the request
NoRequest == <<>>

HttpResponse(route, request, status) ==
  /\ ~stopped
  /\ httpOut' = <<[route |-> route, request |-> request, status |-> status]>>
  /\ UNCHANGED <<store, extSock, socks, inbox, tasks, wire, cmds, nEvt, autoEnable, token, stopped>>

\* GET /cdp/:clientId? with an Upgrade header
CdpRequest(origin, providedToken, clientId, requestedExtensionId, maxSock) ==
  IF cdpGate(origin, providedToken) = NEXT
  THEN DriverUpgrade(clientId, requestedExtensionId, maxSock)
  ELSE HttpResponse("/cdp", NoRequest, cdpGate(origin, providedToken))

\* GET /extension with an Upgrade header
ExtensionRequest(remoteAddress, origin, info, maxExt) ==
  IF extensionGate(remoteAddress, origin) = NEXT
  THEN ExtensionOpen(info, maxExt)
  ELSE HttpResponse("/extension", NoRequest, extensionGate(remoteAddress, origin))

\* a request to /cli/* or /recording/*; status NEXT stands for the response
\* of the route
PrivilegedRequest(method, secFetchSite, contentType, authorization, queryToken) ==
  HttpResponse("/cli",
               [method |-> method, secFetchSite |-> secFetchSite, contentType |-> contentType,
                authorization |-> authorization, token |-> queryToken],
               privilegedRouteMiddleware(method, secFetchSite, contentType, authorization, queryToken))

(***************************************************************************)
(* Spec: drivers and extensions connect, send and disconnect.              *)
(***************************************************************************)
PageT1 == TargetInfo("t1", "page", <<"https://", "a">>, NULL)

Command(method, sessionId, targetId) ==
  [method |-> method, sessionId |-> sessionId, targetId |-> targetId]

Commands ==
  { Command("Browser.getVersion", NULL, NULL),
    Command("Page.enable", "s1", NULL),
    Command("Runtime.enable", "s1", NULL) }

Events == { Event("Runtime.executionContextCreated", "s1", NULL, NoTargetInfo, NULL, <<>>) }

Results == { InitTabResult(TRUE, "s1", PageT1) }

Next ==
  \/ \E info \in Infos : ExtensionOpen(info, MaxExt)
  \/ \E n \in 1..MaxExt, sendThrows \in BOOLEAN : ExtensionClose(n, sendThrows)
  \/ \E clientId \in ClientIds, requested \in RequestedIds : DriverUpgrade(clientId, requested, MaxSock)
  \/ \E s \in 1..MaxSock : DriverOpen(s)
  \/ \E s \in 1..MaxSock, cmd \in Commands, sendThrows \in BOOLEAN :
       DriverMessage(s, cmd.method, cmd.sessionId, cmd.targetId, sendThrows, MaxCmd)
  \/ \E s \in 1..MaxSock : DriverClose(s)
  \/ \E f \in wire, isError \in BOOLEAN, res \in Results, sendThrows \in BOOLEAN :
       ExtensionResponse(f, isError, res, sendThrows)
  \/ \E t \in tasks, sendThrows \in BOOLEAN : RequestTimeout(t, sendThrows)
  \/ \E t \in tasks : LatchTimeout(t)
  \/ \E n \in 1..MaxExt, ev \in Events, sendThrows \in BOOLEAN : ExtensionEvent(n, ev, sendThrows, MaxEvt)

Spec == Init /\ [][Next]_vars

(***************************************************************************)
(* SpecOrder: one driver of one extension sends several commands.          *)
(***************************************************************************)
NextOrder ==
  \/ ExtensionOpen(InfoP1, OneExt)
  \/ \E sendThrows \in BOOLEAN : ExtensionClose(1, sendThrows)
  \/ DriverUpgrade("a", NULL, OneSock)
  \/ DriverOpen(1)
  \/ \E cmd \in Commands, sendThrows \in BOOLEAN :
       DriverMessage(1, cmd.method, cmd.sessionId, cmd.targetId, sendThrows, OrderCmd)
  \/ DriverClose(1)
  \/ \E f \in wire, isError \in BOOLEAN, res \in Results, sendThrows \in BOOLEAN :
       ExtensionResponse(f, isError, res, sendThrows)
  \/ \E t \in tasks, sendThrows \in BOOLEAN : RequestTimeout(t, sendThrows)
  \/ \E t \in tasks : LatchTimeout(t)
  \/ \E ev \in Events, sendThrows \in BOOLEAN : ExtensionEvent(1, ev, sendThrows, OrderEvt)

SpecOrder == Init /\ [][NextOrder]_vars

(***************************************************************************)
(* SpecTargets: one extension reports targets and frames, one driver       *)
(* attaches, and the discovery endpoint is read.                           *)
(***************************************************************************)
InitTargets ==
  /\ store = createRelayStore
  /\ extSock = <<>>
  /\ socks = <<>>
  /\ inbox = <<>>
  /\ tasks = {}
  /\ wire = {}
  /\ cmds = <<>>
  /\ nEvt = 0
  /\ httpOut = <<>>
  /\ autoEnable \in BOOLEAN
  /\ token = NULL
  /\ stopped = FALSE

PageT2 == TargetInfo("t2", "page", <<"https://", "a">>, NULL)
ChromeT1 == TargetInfo("t1", "page", <<"chrome://", "newtab">>, NULL)

TargetCommands ==
  { Command("Target.setAutoAttach", NULL, NULL),
    Command("Target.attachToTarget", NULL, "t1") }

TargetEvents ==
  { Event("Target.attachedToTarget", NULL, "s1", PageT1, NULL, <<>>),
    [Event("Target.attachedToTarget", NULL, "s1", ChromeT1, NULL, <<>>) EXCEPT !.waitingForDebugger = TRUE],
    Event("Target.targetInfoChanged", NULL, NULL, ChromeT1, NULL, <<>>),
    Event("Target.detachedFromTarget", NULL, "s1", NoTargetInfo, NULL, <<>>),
    Event("Page.frameNavigated", "s1", NULL, NoTargetInfo, "f1", <<"chrome://", "newtab">>),
    Event("Page.navigatedWithinDocument", "s1", NULL, NoTargetInfo, NULL, <<"chrome://", "newtab">>) }

TargetResults == { InitTabResult(TRUE, "s1", PageT1), InitTabResult(TRUE, "s1", ChromeT1) }

NextTargets ==
  \/ ExtensionOpen(InfoP1, OneExt)
  \/ \E sendThrows \in BOOLEAN : ExtensionClose(1, sendThrows)
  \/ DriverUpgrade("a", NULL, OneSock)
  \/ DriverOpen(1)
  \/ \E cmd \in TargetCommands, sendThrows \in BOOLEAN :
       DriverMessage(1, cmd.method, cmd.sessionId, cmd.targetId, sendThrows, TargetCmd)
  \/ DriverClose(1)
  \/ \E f \in wire, isError \in BOOLEAN, res \in TargetResults, sendThrows \in BOOLEAN :
       ExtensionResponse(f, isError, res, sendThrows)
  \/ \E t \in tasks, sendThrows \in BOOLEAN : RequestTimeout(t, sendThrows)
  \/ \E ev \in TargetEvents, sendThrows \in BOOLEAN : ExtensionEvent(1, ev, sendThrows, TargetEvt)
  \/ HttpJsonList

SpecTargets == InitTargets /\ [][NextTargets]_vars

(***************************************************************************)
(* SpecFrames: one extension reports two pages and their frames to one     *)
(* driver.                                                                 *)
(***************************************************************************)
FrameEvents ==
  { Event("Target.attachedToTarget", NULL, "s1", PageT1, NULL, <<>>),
    Event("Target.attachedToTarget", NULL, "s2", PageT2, NULL, <<>>),
    Event("Target.targetCrashed", NULL, NULL, PageT2, NULL, <<>>),
    Event("Page.frameAttached", "s1", NULL, NoTargetInfo, "f1", <<>>),
    Event("Page.frameDetached", "s1", NULL, NoTargetInfo, "f1", <<>>),
    [Event("Page.frameNavigated", "s2", NULL, NoTargetInfo, "f1", <<"https://", "a">>)
       EXCEPT !.hasParent = TRUE] }

NextFrames ==
  \/ ExtensionOpen(InfoP1, OneExt)
  \/ \E sendThrows \in BOOLEAN : ExtensionClose(1, sendThrows)
  \/ DriverUpgrade("a", NULL, OneSock)
  \/ DriverOpen(1)
  \/ DriverClose(1)
  \/ \E ev \in FrameEvents, sendThrows \in BOOLEAN : ExtensionEvent(1, ev, sendThrows, FrameEvt)

SpecFrames == Init /\ [][NextFrames]_vars

(***************************************************************************)
(* SpecReconnect: up to three extension sockets, so that three entries of  *)
(* one stableKey can overlap, with two drivers and one forwarded command.  *)
(***************************************************************************)
ReconnectCommands == { Command("Page.enable", "s1", NULL) }

NextReconnect ==
  \/ \E info \in Infos : ExtensionOpen(info, ReconExt)
  \/ \E n \in 1..ReconExt, sendThrows \in BOOLEAN : ExtensionClose(n, sendThrows)
  \/ \E clientId \in ClientIds, requested \in RequestedIds : DriverUpgrade(clientId, requested, ReconSock)
  \/ \E s \in 1..ReconSock : DriverOpen(s)
  \/ \E s \in 1..ReconSock, cmd \in ReconnectCommands, sendThrows \in BOOLEAN :
       DriverMessage(s, cmd.method, cmd.sessionId, cmd.targetId, sendThrows, ReconCmd)
  \/ \E s \in 1..ReconSock : DriverClose(s)
  \/ \E f \in wire, isError \in BOOLEAN, sendThrows \in BOOLEAN :
       ExtensionResponse(f, isError, NoResult, sendThrows)
  \/ \E t \in tasks, sendThrows \in BOOLEAN : RequestTimeout(t, sendThrows)

SpecReconnect == Init /\ [][NextReconnect]_vars

(***************************************************************************)
(* SpecAttach: one extension reports pages and a restricted target while   *)
(* one driver turns auto-attach on.                                        *)
(***************************************************************************)
ChromeT4 == TargetInfo("t4", "page", <<"chrome://", "newtab">>, NULL)

AttachCommands == { Command("Target.setAutoAttach", NULL, NULL) }

AttachEvents ==
  { Event("Target.attachedToTarget", NULL, "s1", PageT1, NULL, <<>>),
    Event("Target.attachedToTarget", NULL, "s2", PageT2, NULL, <<>>),
    Event("Target.detachedFromTarget", NULL, "s1", NoTargetInfo, NULL, <<>>),
    [Event("Target.attachedToTarget", NULL, "s4", ChromeT4, NULL, <<>>) EXCEPT !.waitingForDebugger = TRUE] }

NextAttach ==
  \/ ExtensionOpen(InfoP1, OneExt)
  \/ \E sendThrows \in BOOLEAN : ExtensionClose(1, sendThrows)
  \/ DriverUpgrade("a", NULL, OneSock)
  \/ DriverOpen(1)
  \/ \E cmd \in AttachCommands, sendThrows \in BOOLEAN :
       DriverMessage(1, cmd.method, cmd.sessionId, cmd.targetId, sendThrows, AttachCmd)
  \/ DriverClose(1)
  \/ \E f \in wire, isError \in BOOLEAN, sendThrows \in BOOLEAN :
       ExtensionResponse(f, isError, NoResult, sendThrows)
  \/ \E t \in tasks, sendThrows \in BOOLEAN : RequestTimeout(t, sendThrows)
  \/ \E ev \in AttachEvents, sendThrows \in BOOLEAN : ExtensionEvent(1, ev, sendThrows, AttachEvt)

SpecAttach == Init /\ [][NextAttach]_vars

(***************************************************************************)
(* SpecIframe: one extension reports two pages, a frame and an iframe      *)
(* target whose parent is that frame, to one driver.                       *)
(***************************************************************************)
IframeT3 == TargetInfo("t3", "iframe", <<"https://", "a">>, "f1")

IframeEvents ==
  { Event("Target.attachedToTarget", NULL, "s1", PageT1, NULL, <<>>),
    Event("Target.attachedToTarget", NULL, "s2", PageT2, NULL, <<>>),
    Event("Target.attachedToTarget", "s2", "s3", IframeT3, NULL, <<>>),
    Event("Page.frameAttached", "s1", NULL, NoTargetInfo, "f1", <<>>),
    [Event("Page.frameNavigated", "s2", NULL, NoTargetInfo, "f1", <<"https://", "a">>)
       EXCEPT !.hasParent = TRUE] }

NextIframe ==
  \/ ExtensionOpen(InfoP1, OneExt)
  \/ \E sendThrows \in BOOLEAN : ExtensionClose(1, sendThrows)
  \/ DriverUpgrade("a", NULL, OneSock)
  \/ DriverOpen(1)
  \/ DriverClose(1)
  \/ \E ev \in IframeEvents, sendThrows \in BOOLEAN : ExtensionEvent(1, ev, sendThrows, IframeEvt)

SpecIframe == Init /\ [][NextIframe]_vars

(***************************************************************************)
(* SpecReplay: one extension reports two pages, one of which turns into a  *)
(* restricted page, while two sockets of one clientId send the commands    *)
(* the relay answers from its own state.                                   *)
(***************************************************************************)
ReplayCommands ==
  { Command("Target.setAutoAttach", NULL, NULL),
    Command("Target.setDiscoverTargets", NULL, NULL),
    Command("Target.getTargets", NULL, NULL),
    Command("Target.attachToTarget", NULL, "t1"),
    Command("Target.attachToTarget", NULL, "t2") }

ReplayEvents ==
  { Event("Target.attachedToTarget", NULL, "s1", PageT1, NULL, <<>>),
    Event("Target.attachedToTarget", NULL, "s2", PageT2, NULL, <<>>),
    Event("Page.navigatedWithinDocument", "s1", NULL, NoTargetInfo, NULL, <<"chrome://", "newtab">>) }

NextReplay ==
  \/ ExtensionOpen(InfoP1, OneExt)
  \/ \E sendThrows \in BOOLEAN : ExtensionClose(1, sendThrows)
  \/ DriverUpgrade("a", NULL, ReplaySock)
  \/ \E s \in 1..ReplaySock : DriverOpen(s)
  \/ \E s \in 1..ReplaySock, cmd \in ReplayCommands, sendThrows \in BOOLEAN :
       DriverMessage(s, cmd.method, cmd.sessionId, cmd.targetId, sendThrows, ReplayCmd)
  \/ \E s \in 1..ReplaySock : DriverClose(s)
  \/ \E f \in wire, isError \in BOOLEAN, sendThrows \in BOOLEAN :
       ExtensionResponse(f, isError, NoResult, sendThrows)
  \/ \E t \in tasks, sendThrows \in BOOLEAN : RequestTimeout(t, sendThrows)
  \/ \E ev \in ReplayEvents, sendThrows \in BOOLEAN : ExtensionEvent(1, ev, sendThrows, ReplayEvt)

SpecReplay == Init /\ [][NextReplay]_vars

(***************************************************************************)
(* SpecLatch: Runtime.enable on session s1 while the extension reports     *)
(* execution contexts of s1 and of another session.                        *)
(***************************************************************************)
LatchCommands == { Command("Runtime.enable", "s1", NULL) }

LatchEvents ==
  { Event("Runtime.executionContextCreated", "s1", NULL, NoTargetInfo, NULL, <<>>),
    [Event("Runtime.executionContextCreated", "s1", NULL, NoTargetInfo, NULL, <<>>)
       EXCEPT !.isDefault = FALSE],
    Event("Runtime.executionContextCreated", "s2", NULL, NoTargetInfo, NULL, <<>>) }

NextLatch ==
  \/ ExtensionOpen(InfoP1, OneExt)
  \/ \E sendThrows \in BOOLEAN : ExtensionClose(1, sendThrows)
  \/ DriverUpgrade("a", NULL, LatchSock)
  \/ \E s \in 1..LatchSock : DriverOpen(s)
  \/ \E s \in 1..LatchSock, cmd \in LatchCommands, sendThrows \in BOOLEAN :
       DriverMessage(s, cmd.method, cmd.sessionId, cmd.targetId, sendThrows, LatchCmd)
  \/ \E s \in 1..LatchSock : DriverClose(s)
  \/ \E f \in wire, isError \in BOOLEAN, sendThrows \in BOOLEAN :
       ExtensionResponse(f, isError, NoResult, sendThrows)
  \/ \E t \in tasks, sendThrows \in BOOLEAN : RequestTimeout(t, sendThrows)
  \/ \E t \in tasks : LatchTimeout(t)
  \/ \E ev \in LatchEvents, sendThrows \in BOOLEAN : ExtensionEvent(1, ev, sendThrows, LatchEvt)

SpecLatch == Init /\ [][NextLatch]_vars

(***************************************************************************)
(* SpecPair: two extensions, each with its own tabs s1 and s2, report      *)
(* attaches, detaches and crashes to the drivers bound to them.            *)
(***************************************************************************)
PairEvents ==
  { Event("Target.attachedToTarget", NULL, "s1", PageT1, NULL, <<>>),
    Event("Target.attachedToTarget", NULL, "s2", PageT2, NULL, <<>>),
    Event("Target.detachedFromTarget", NULL, "s1", NoTargetInfo, NULL, <<>>),
    Event("Target.targetCrashed", NULL, NULL, PageT2, NULL, <<>>) }

NextPair ==
  \/ \E info \in Infos : ExtensionOpen(info, PairExt)
  \/ \E n \in 1..PairExt : ExtensionClose(n, FALSE)
  \/ DriverUpgrade("a", ProfileKey.p1, PairSock)
  \/ DriverUpgrade("b", ProfileKey.p2, PairSock)
  \/ \E s \in 1..PairSock : DriverOpen(s)
  \/ \E s \in 1..PairSock : DriverClose(s)
  \/ \E n \in 1..PairExt, ev \in PairEvents : ExtensionEvent(n, ev, FALSE, PairEvt)

SpecPair == Init /\ [][NextPair]_vars

(***************************************************************************)
(* SpecNested: one extension reports pages, frames and an iframe target    *)
(* while one driver turns auto-attach on or attaches to the iframe.        *)
(***************************************************************************)
NestedCommands ==
  { Command("Target.setAutoAttach", NULL, NULL),
    Command("Target.attachToTarget", NULL, "t3") }

NextNested ==
  \/ ExtensionOpen(InfoP1, OneExt)
  \/ ExtensionClose(1, FALSE)
  \/ DriverUpgrade("a", NULL, OneSock)
  \/ DriverOpen(1)
  \/ \E cmd \in NestedCommands :
       DriverMessage(1, cmd.method, cmd.sessionId, cmd.targetId, FALSE, NestedCmd)
  \/ DriverClose(1)
  \/ \E f \in wire, isError \in BOOLEAN : ExtensionResponse(f, isError, NoResult, FALSE)
  \/ \E ev \in IframeEvents : ExtensionEvent(1, ev, FALSE, NestedEvt)

SpecNested == Init /\ [][NextNested]_vars

(***************************************************************************)
(* SpecOverlap: an extension reconnects under the same profile while two   *)
(* drivers, one bound to each connection, have a command forwarded.        *)
(***************************************************************************)
NextOverlap ==
  \/ ExtensionOpen(InfoP1, OverlapExt)
  \/ \E n \in 1..OverlapExt : ExtensionClose(n, FALSE)
  \/ DriverUpgrade("a", NULL, OverlapSock)
  \/ DriverUpgrade("b", ProfileKey.p1, OverlapSock)
  \/ \E s \in 1..OverlapSock : DriverOpen(s)
  \/ \E s \in 1..OverlapSock, cmd \in ReconnectCommands :
       DriverMessage(s, cmd.method, cmd.sessionId, cmd.targetId, FALSE, OverlapCmd)
  \/ \E s \in 1..OverlapSock : DriverClose(s)
  \/ \E f \in wire, isError \in BOOLEAN : ExtensionResponse(f, isError, NoResult, FALSE)
  \/ \E t \in tasks : RequestTimeout(t, FALSE)

SpecOverlap == Init /\ [][NextOverlap]_vars

(***************************************************************************)
(* RelayServer.close(): closes the socket of every client and extension    *)
(* entry of the store, clears the ping intervals of the entries, resets    *)
(* the store and stops the http server.                                    *)
(***************************************************************************)
ServerClose ==
  /\ ~stopped
  /\ socks' = [s \in DOMAIN socks |->
                IF /\ \E i \in DOMAIN store.playwrightClients : store.playwrightClients[i].ws = s
                   /\ socks[s].state = "open"
                THEN [socks[s] EXCEPT !.state = "closing", !.closeCode = 1000]
                ELSE socks[s]]
  /\ extSock' = [n \in DOMAIN extSock |->
                  IF ExtHas(store.extensions, ExtNames[n]) /\ ExtGet(store.extensions, ExtNames[n]).ws
                  THEN CloseSock(extSock, n, 1000)[n]
                  ELSE extSock[n]]
  /\ store' = createRelayStore
  /\ stopped' = TRUE
  /\ UNCHANGED <<inbox, tasks, wire, cmds, nEvt, httpOut, autoEnable, token>>

(***************************************************************************)
(* SpecShutdown: one extension and two driver sockets of one clientId, a   *)
(* forwarded command, and the server being closed at any moment.           *)
(***************************************************************************)
NextShutdown ==
  \/ ExtensionOpen(InfoP1, ShutdownExt)
  \/ ExtensionClose(1, FALSE)
  \/ DriverUpgrade("a", NULL, ShutdownSock)
  \/ \E s \in 1..ShutdownSock : DriverOpen(s)
  \/ \E s \in 1..ShutdownSock, cmd \in ReconnectCommands :
       DriverMessage(s, cmd.method, cmd.sessionId, cmd.targetId, FALSE, ShutdownCmd)
  \/ \E s \in 1..ShutdownSock : DriverClose(s)
  \/ \E f \in wire, isError \in BOOLEAN : ExtensionResponse(f, isError, NoResult, FALSE)
  \/ \E t \in tasks : RequestTimeout(t, FALSE)
  \/ ServerClose

SpecShutdown == Init /\ [][NextShutdown]_vars

(***************************************************************************)
(* SpecGate: upgrade requests with and without the headers and tokens the  *)
(* gates read, against a relay started with or without a token.            *)
(***************************************************************************)
InitGate ==
  /\ store = createRelayStore
  /\ extSock = <<>>
  /\ socks = <<>>
  /\ inbox = <<>>
  /\ tasks = {}
  /\ wire = {}
  /\ cmds = <<>>
  /\ nEvt = 0
  /\ httpOut = <<>>
  /\ autoEnable = FALSE
  /\ token \in {NULL, "tok"}
  /\ stopped = FALSE

Origins ==
  { NoHeader, Header(<<>>),
    Header(<<"chrome-extension://", "okid">>),
    Header(<<"chrome-extension://", "evil">>),
    Header(<<"chrome-extension://">>),
    Header(<<"chrome-extension://", "okid", "/x">>),
    Header(<<"chrome-extension://", "chrome-extension://", "okid">>),
    Header(<<"https://", "chrome-extension://", "okid">>),
    Header(<<"https://", "evil.com">>) }

Tokens == { NULL, "tok", "bad" }

Addresses == { "127.0.0.1", "::1", "::ffff:127.0.0.1", "10.0.0.7" }

Methods == { "GET", "POST" }

SecFetchSites == { NULL, "", "same-origin", "none", "same-site", "cross-site" }

ContentTypes ==
  { NoHeader,
    Header(<<"application/json">>),
    Header(<<"application/json", "; charset=utf-8">>),
    Header(<<"text/plain">>),
    Header(<<"application/x-www-form-urlencoded">>),
    Header(<<"text/plain", "; x=", "application/json">>) }

Authorizations ==
  { NoHeader, Header(<<"Bearer ", "tok">>), Header(<<"Bearer ", "bad">>),
    Header(<<"bearer ", "tok">>) }

NextGate ==
  \/ \E origin \in Origins, providedToken \in Tokens :
       CdpRequest(origin, providedToken, "a", NULL, GateSock)
  \/ \E s \in 1..GateSock : DriverOpen(s)
  \/ \E s \in 1..GateSock : DriverClose(s)
  \/ \E remoteAddress \in Addresses, origin \in Origins :
       ExtensionRequest(remoteAddress, origin, InfoP1, GateExt)
  \/ \E n \in 1..GateExt, sendThrows \in BOOLEAN : ExtensionClose(n, sendThrows)

SpecGate == InitGate /\ [][NextGate]_vars

(***************************************************************************)
(* SpecRoute: requests to the privileged routes, against a relay started   *)
(* with or without a token.                                                *)
(***************************************************************************)
NextRoute ==
  \E method \in Methods, secFetchSite \in SecFetchSites, contentType \in ContentTypes,
     authorization \in Authorizations, queryToken \in Tokens :
    PrivilegedRequest(method, secFetchSite, contentType, authorization, queryToken)

SpecRoute == InitGate /\ [][NextRoute]_vars

(***************************************************************************)
(* Properties                                                              *)
(***************************************************************************)
\* the frames an action wrote to driver socket s
Written(s) ==
  {k \in DOMAIN inbox'[s] : s \notin DOMAIN inbox \/ k > Len(inbox[s])}

\* the extension entry is in the store and its socket is open
IsConnected(c, extensionId) ==
  /\ ExtHas(c.store.extensions, extensionId)
  /\ ExtGet(c.store.extensions, extensionId).ws
  /\ c.extSock[ExtNum(extensionId)].state = "open"

\* C1: once the close of the extension connection a driver was bound to has
\* been processed and the store binds the driver to a connected successor,
\* no command of that driver is answered "Extension not connected".
C1_RerouteToSuccessor ==
  [][\A s \in DOMAIN inbox' : \A k \in Written(s) :
        (inbox'[s][k].kind = "response" /\ inbox'[s][k].error = "Extension not connected")
          => ~IsConnected([store |-> store', extSock |-> extSock'], inbox'[s][k].bound)]_vars

\* C2: a driver whose socket is open stays registered under its own socket
\* whatever a socket rejected with 4004 for the same clientId does afterwards.
C2_OriginalUnaffected ==
  \A s \in DOMAIN socks : \A d \in DOMAIN socks :
    (socks[s].state = "open" /\ socks[d].closeCode = 4004 /\ socks[d].clientId = socks[s].clientId)
      => /\ ClientHas(store.playwrightClients, socks[s].clientId)
         /\ ClientGet(store.playwrightClients, socks[s].clientId).ws = s

\* C3: a response is written only to the connection that sent the command,
\* and at most once.  Stated for runs in which the relay rejected or closed
\* no driver socket and every extension socket is open.
C3_ResponseToSender ==
  ((\A d \in DOMAIN socks : socks[d].closeCode = 0) /\ (\A n \in DOMAIN extSock : extSock[n].state = "open"))
    => /\ \A s \in DOMAIN inbox : \A k \in DOMAIN inbox[s] :
            inbox[s][k].kind = "response" => cmds[inbox[s][k].id].sock = s
       /\ \A s \in DOMAIN inbox : \A k \in DOMAIN inbox[s] :
            \A d \in DOMAIN inbox : \A j \in DOMAIN inbox[d] :
              (inbox[s][k].kind = "response" /\ inbox[d][j].kind = "response"
                 /\ inbox[s][k].id = inbox[d][j].id) => (s = d /\ k = j)

\* C4: when the handler of a command has run to its end and the sender's
\* socket is still open, the sender has the response (a command whose handler
\* ended without a response is never answered).
C4_AnsweredWhenHandled ==
  \A id \in DOMAIN cmds :
    (cmds[id].state = "done" /\ socks[cmds[id].sock].state = "open")
      => \E k \in DOMAIN inbox[cmds[id].sock] :
           inbox[cmds[id].sock][k].kind = "response" /\ inbox[cmds[id].sock][k].id = id

IsResponse(s, k) == inbox[s][k].kind = "response" /\ cmds[inbox[s][k].id].sock = s

\* a command routeCdpCommand answers without a request to the extension
IsLocal(id) == cmds[id].method = "Browser.getVersion"

\* C5 as stated: on one driver connection the responses are written in the
\* order of the commands.
C5_ResponsesInCommandOrder ==
  \A s \in DOMAIN inbox : \A k \in DOMAIN inbox[s] : \A j \in DOMAIN inbox[s] :
    (k < j /\ IsResponse(s, k) /\ IsResponse(s, j)) => inbox[s][k].id < inbox[s][j].id

\* C5 amended: a command answered without the extension is answered in the
\* step that receives it, so the responses to such commands are in command
\* order; a command that waits for the extension or the Runtime.enable latch
\* is answered when its wait ends, which can be after later commands.
C5_LocalResponsesInOrder ==
  /\ \A id \in DOMAIN cmds : IsLocal(id) => cmds[id].state = "done"
  /\ \A s \in DOMAIN inbox : \A k \in DOMAIN inbox[s] : \A j \in DOMAIN inbox[s] :
       (k < j /\ IsResponse(s, k) /\ IsResponse(s, j)
          /\ IsLocal(inbox[s][k].id) /\ IsLocal(inbox[s][j].id))
         => inbox[s][k].id < inbox[s][j].id

C5_Witness ==
  \E s \in DOMAIN inbox : \E k \in DOMAIN inbox[s] : \E j \in DOMAIN inbox[s] : \E l \in DOMAIN inbox[s] :
    /\ k < j /\ j < l
    /\ IsResponse(s, k) /\ IsResponse(s, j) /\ IsResponse(s, l)
    /\ IsLocal(inbox[s][k].id) /\ IsLocal(inbox[s][j].id) /\ ~IsLocal(inbox[s][l].id)
    /\ inbox[s][l].id < inbox[s][k].id

\* C6: an event forwarded by extension connection X is written only to
\* drivers whose extensionId in the store is X when it is written.
C6_EventsOnlyToBound ==
  \A s \in DOMAIN inbox : \A k \in DOMAIN inbox[s] :
    (inbox[s][k].kind = "event" /\ inbox[s][k].src # NULL) => inbox[s][k].bound = inbox[s][k].src

C6_Witness ==
  \E s \in DOMAIN socks : \E d \in DOMAIN socks :
    /\ socks[s].state = "open" /\ socks[d].state = "open"
    /\ ClientHas(store.playwrightClients, socks[s].clientId)
    /\ ClientHas(store.playwrightClients, socks[d].clientId)
    /\ ClientGet(store.playwrightClients, socks[s].clientId).extensionId
         # ClientGet(store.playwrightClients, socks[d].clientId).extensionId
    /\ \E k \in DOMAIN inbox[s] : inbox[s][k].kind = "event" /\ inbox[s][k].src # NULL
    /\ inbox[d] = <<>>

\* C7: every PlaywrightClient in the store names an ExtensionEntry that is
\* in the store.
C7_ClientsNameAnExtension ==
  \A i \in DOMAIN store.playwrightClients :
    ExtHas(store.extensions, store.playwrightClients[i].extensionId)

\* C8: the frameIds of any two ConnectedTargets of one extension are
\* disjoint.
C8_FrameIdsDisjoint ==
  \A x \in DOMAIN store.extensions :
    \A i \in DOMAIN store.extensions[x].connectedTargets :
      \A j \in DOMAIN store.extensions[x].connectedTargets :
        i # j => store.extensions[x].connectedTargets[i].frameIds
                   \cap store.extensions[x].connectedTargets[j].frameIds = {}

\* C9: no Target.attachedToTarget written to a driver carries a restricted
\* targetInfo.
C9_NoRestrictedAttached ==
  \A s \in DOMAIN inbox : \A k \in DOMAIN inbox[s] :
    (inbox[s][k].kind = "event" /\ inbox[s][k].method = "Target.attachedToTarget")
      => ~isRestrictedTarget(inbox[s][k].targetInfo)

\* C10: the body of /json/list holds no restricted target.
C10_JsonListNoRestricted ==
  \A i \in DOMAIN httpOut : ~isRestrictedTarget([type |-> httpOut[i].type, url |-> httpOut[i].url])

\* the calls suspended on a request sent to the extension connection
Awaiting(ts, extensionId) ==
  {t \in ts : t.reqExt = extensionId /\ t.stage \in {"initTab", "ext", "server"}}

\* C11: the step that processes the close of an extension socket settles
\* every call awaiting a request on that extension and removes the entry with
\* its pendingRequests; a forwarded driver command is answered "Extension
\* connection closed" when its driver is still registered on an open socket.
\* From then on the store holds no entry (so no pending request) of that
\* extension and no call awaits it.
C11_PendingRejectedOnClose ==
  [][\A n \in DOMAIN extSock' :
       extSock'[n].state = "closed"
         => /\ ~ExtHas(store'.extensions, ExtNames[n])
            /\ Awaiting(tasks', ExtNames[n]) = {}
            /\ (n \in DOMAIN extSock /\ extSock[n].state # "closed")
                 => \A t \in Awaiting(tasks, ExtNames[n]) :
                      (t.stage = "ext" /\ t.cmd > 0)
                        => /\ cmds'[t.cmd].state = "done"
                           /\ (ClientHas(store'.playwrightClients, t.clientId)
                                 /\ socks'[ClientGet(store'.playwrightClients, t.clientId).ws].state = "open")
                                => \E k \in Written(ClientGet(store'.playwrightClients, t.clientId).ws) :
                                     LET f == inbox'[ClientGet(store'.playwrightClients, t.clientId).ws][k]
                                     IN f.kind = "response" /\ f.id = t.cmd
                                        /\ f.error = "Extension connection closed"]_vars

C11_Witness ==
  \E s \in DOMAIN inbox : \E k \in DOMAIN inbox[s] :
    inbox[s][k].kind = "response" /\ inbox[s][k].error = "Extension connection closed"

\* C12: when the timer of a forwarded driver command fires, the pending
\* entry of its id is removed, the call is settled, and the driver that sent
\* the command, its socket still open, is written an error response naming
\* the timeout; a response of the extension for an id that is not pending
\* changes nothing but the frame being consumed.
C12_TimeoutRejects ==
  [][/\ \A t \in tasks : \A sendThrows \in BOOLEAN :
          (t.stage = "ext" /\ t.cmd > 0 /\ RequestTimeout(t, sendThrows))
            => /\ ExtHas(store'.extensions, t.reqExt)
                    => t.reqId \notin ExtGet(store'.extensions, t.reqExt).pendingRequests
               /\ \A u \in Awaiting(tasks', t.reqExt) : u.reqId # t.reqId
               /\ socks'[t.sock].state = "open"
                    => \E k \in Written(t.sock) :
                         /\ inbox'[t.sock][k].kind = "response"
                         /\ inbox'[t.sock][k].id = t.cmd
                         /\ inbox'[t.sock][k].error = "Extension request timeout"
     /\ \A f \in wire : \A isError \in BOOLEAN : \A res \in Results : \A sendThrows \in BOOLEAN :
          (/\ ExtHas(store.extensions, f.ext)
           /\ f.id \notin ExtGet(store.extensions, f.ext).pendingRequests
           /\ ExtensionResponse(f, isError, res, sendThrows))
            => UNCHANGED <<store, inbox, tasks, cmds, socks>>]_vars

\* C13: on one extension connection every request gets an id above every id
\* allocated before: messageId never decreases, every pending or unanswered
\* request has an id up to messageId, a request added by a step has an id above
\* the messageId before the step, and no two suspended calls await the same id.
C13_MessageIdsIncrease ==
  [][\A i \in DOMAIN store'.extensions :
       LET after == store'.extensions[i]
       IN /\ \A r \in after.pendingRequests : r >= 1 /\ r <= after.messageId
          /\ \A f \in wire' : f.ext = after.id => (f.id >= 1 /\ f.id <= after.messageId)
          /\ \A t \in Awaiting(tasks', after.id) : \A u \in Awaiting(tasks', after.id) :
               t # u => t.reqId # u.reqId
          /\ ExtHas(store.extensions, after.id)
               => LET before == ExtGet(store.extensions, after.id)
                  IN /\ after.messageId >= before.messageId
                     /\ \A r \in after.pendingRequests \ before.pendingRequests : r > before.messageId
                     /\ \A f \in wire' \ wire : f.ext = after.id => f.id > before.messageId
                     /\ \A t \in Awaiting(tasks', after.id) :
                          t.reqId \notin {u.reqId : u \in Awaiting(tasks, after.id)}
                            => t.reqId > before.messageId]_vars

C13_Witness ==
  \E i \in DOMAIN store.extensions :
    /\ store.extensions[i].messageId >= 3
    /\ {1, 3} \subseteq store.extensions[i].pendingRequests
    /\ 2 \notin store.extensions[i].pendingRequests

C15_NewTrafficToNewEntry ==
  [][Len(cmds') > Len(cmds)
       => \A t \in tasks' :
            (t.cmd = Len(cmds') /\ t.stage = "ext")
              => findExtensionByStableKey(store', ExtGet(store'.extensions, t.reqExt).stableKey)
                   = t.reqExt]_vars

\* the step processes the close of extension socket n
ClosesExtension(n) ==
  n \in DOMAIN extSock /\ extSock[n].state # "closed" /\ extSock'[n].state = "closed"

\* other entries of the store hold the stableKey of the entry
HasSuccessor(state, extensionId) ==
  /\ ExtHas(state.extensions, extensionId)
  /\ \E i \in DOMAIN state.extensions :
       /\ state.extensions[i].id # extensionId
       /\ state.extensions[i].stableKey = ExtGet(state.extensions, extensionId).stableKey

\* C16: when the close of an extension is processed while other entries hold
\* its stableKey, every driver bound to it is bound afterwards to the entry
\* findExtensionByStableKey returns for that stableKey (the newest), and the
\* drivers bound to other extensions are unchanged.
C16_ReboundToNewest ==
  [][\A n \in DOMAIN extSock :
       (ClosesExtension(n) /\ HasSuccessor(store, ExtNames[n]))
         => \A i \in DOMAIN store.playwrightClients :
              LET client == store.playwrightClients[i]
              IN /\ ClientHas(store'.playwrightClients, client.id)
                 /\ ClientGet(store'.playwrightClients, client.id).ws = client.ws
                 /\ ClientGet(store'.playwrightClients, client.id).extensionId
                      = IF client.extensionId = ExtNames[n]
                        THEN findExtensionByStableKey(store',
                               ExtGet(store.extensions, ExtNames[n]).stableKey)
                        ELSE client.extensionId]_vars

\* C17: when the close of an extension is processed and no other entry holds
\* its stableKey, the store afterwards holds neither the entry nor any driver
\* that was bound to it, each such driver's socket has been closed by the
\* relay with 1000, and every other entry, every driver bound to another
\* extension and every other driver socket is as before.
C17_ClosedWithoutSuccessor ==
  [][\A n \in DOMAIN extSock :
       (ClosesExtension(n) /\ ExtHas(store.extensions, ExtNames[n])
          /\ ~HasSuccessor(store, ExtNames[n]))
         => /\ ~ExtHas(store'.extensions, ExtNames[n])
            /\ store'.extensions = ExtDelete(store.extensions, ExtNames[n])
            /\ store'.playwrightClients =
                 SelectSeq(store.playwrightClients, LAMBDA c : c.extensionId # ExtNames[n])
            /\ \A i \in DOMAIN store.playwrightClients :
                 store.playwrightClients[i].extensionId = ExtNames[n]
                   => /\ socks'[store.playwrightClients[i].ws].state = "closing"
                      /\ socks'[store.playwrightClients[i].ws].closeCode = 1000
            /\ \A s \in DOMAIN socks :
                 (\A i \in DOMAIN store.playwrightClients :
                    store.playwrightClients[i].extensionId = ExtNames[n]
                      => store.playwrightClients[i].ws # s)
                   => socks'[s] = socks[s]]_vars

C17_Witness ==
  \E s \in DOMAIN socks : \E d \in DOMAIN socks :
    /\ socks[s].state = "closing" /\ socks[s].closeCode = 1000
    /\ ~ClientHas(store.playwrightClients, socks[s].clientId)
    /\ extSock[ExtNum(socks[s].clientExtensionId)].state = "closed"
    /\ socks[d].state = "open"
    /\ ClientHas(store.playwrightClients, socks[d].clientId)
    /\ ClientGet(store.playwrightClients, socks[d].clientId).ws = d
    /\ ExtHas(store.extensions, ClientGet(store.playwrightClients, socks[d].clientId).extensionId)

\* the page targets of the entry whose frameIds hold the frame
PageOwners(ext, frameId) ==
  {i \in DOMAIN ext.connectedTargets :
     /\ ext.connectedTargets[i].targetInfo.type = "page"
     /\ frameId \in ext.connectedTargets[i].frameIds}

\* the event is a Target.attachedToTarget for an iframe target that is not
\* restricted and whose session the entry does not know yet
IsNewIframeAttach(ext, ev) ==
  /\ ev.method = "Target.attachedToTarget"
  /\ ev.targetInfo.type = "iframe"
  /\ ev.targetInfo.parentFrameId # NULL
  /\ ~isRestrictedTarget(ev.targetInfo)
  /\ ~TargetHas(ext.connectedTargets, ev.psid)

IsAttached(f, sessionId) ==
  f.kind = "event" /\ f.method = "Target.attachedToTarget" /\ f.psid = sessionId

\* C19: a driver is written at most one Target.attachedToTarget per attached
\* session: between two of them for one session id the driver was written
\* the Target.detachedFromTarget of that session.
C19_AttachedOnce ==
  \A s \in DOMAIN inbox : \A k \in DOMAIN inbox[s] : \A j \in DOMAIN inbox[s] :
    (k < j /\ IsAttached(inbox[s][k], inbox[s][j].psid) /\ IsAttached(inbox[s][j], inbox[s][j].psid))
      => \E m \in DOMAIN inbox[s] :
           /\ k < m /\ m < j
           /\ inbox[s][m].kind = "event"
           /\ inbox[s][m].method = "Target.detachedFromTarget"
           /\ inbox[s][m].psid = inbox[s][j].psid

\* C20: the step that receives a Target.attachedToTarget for a restricted
\* target writes nothing to any driver and leaves the extension's
\* connectedTargets as they were; when the event has waitingForDebugger and
\* the extension's socket is open, the extension is sent a new pending
\* request Runtime.runIfWaitingForDebugger on the reported session.
C20_RestrictedDroppedAndResumed ==
  [][\A ev \in AttachEvents : \A sendThrows \in BOOLEAN :
       (/\ ev.method = "Target.attachedToTarget"
        /\ isRestrictedTarget(ev.targetInfo)
        /\ ExtensionEvent(1, ev, sendThrows, AttachEvt))
         => /\ inbox' = inbox
            /\ ExtHas(store'.extensions, "e1")
            /\ ExtGet(store'.extensions, "e1").connectedTargets
                 = ExtGet(store.extensions, "e1").connectedTargets
            /\ (ev.waitingForDebugger /\ ev.psid # NULL /\ extSock[1].state = "open")
                 => \E f \in wire' \ wire :
                      /\ f.ext = "e1"
                      /\ f.method = "Runtime.runIfWaitingForDebugger"
                      /\ f.sessionId = ev.psid
                      /\ f.id \in ExtGet(store'.extensions, "e1").pendingRequests
                      /\ f.id \notin ExtGet(store.extensions, "e1").pendingRequests]_vars

C20_Witness ==
  /\ \E f \in wire : f.method = "Runtime.runIfWaitingForDebugger" /\ f.sessionId = "s4"
  /\ ExtHas(store.extensions, "e1")
  /\ ~TargetHas(ExtGet(store.extensions, "e1").connectedTargets, "s4")
  /\ \E i \in DOMAIN store.playwrightClients :
       /\ store.playwrightClients[i].extensionId = "e1"
       /\ socks[store.playwrightClients[i].ws].state = "open"
       /\ \E k \in DOMAIN inbox[store.playwrightClients[i].ws] :
            IsAttached(inbox[store.playwrightClients[i].ws][k], "s1")
       /\ \A k \in DOMAIN inbox[store.playwrightClients[i].ws] :
            inbox[store.playwrightClients[i].ws][k].psid # "s4"

\* the extension's answer f settles the session-less Target.setAutoAttach of
\* task t in this step
AnswersAutoAttach(f, t) ==
  /\ t.method = "Target.setAutoAttach" /\ t.sessionId = NULL /\ t.stage = "ext"
  /\ t.reqExt = f.ext /\ t.reqId = f.id
  /\ \E b \in BOOLEAN : ExtensionResponse(f, FALSE, NoResult, b)

\* the non-restricted targets of the extension entry, in Map order
VisibleTargets(state, extensionId) ==
  IF ExtHas(state.extensions, extensionId)
  THEN SelectSeq(ExtGet(state.extensions, extensionId).connectedTargets,
                 LAMBDA x : ~isRestrictedTarget(x.targetInfo))
  ELSE <<>>

\* frame k written to socket s in this step (k counts from the first new frame)
NewFrame(s, k) == inbox'[s][Len(inbox[s]) + k]

\* C21: when the extension answers a session-less Target.setAutoAttach, the
\* socket that sent it (if still open) is written one Target.attachedToTarget
\* with attached:true per non-restricted target of its extension, then the
\* response to the command, and no other driver socket is written anything.
C21_ReplayToRequester ==
  [][\A f \in wire : \A t \in tasks :
       AnswersAutoAttach(f, t) =>
         LET visible == VisibleTargets(store, t.extId)
         IN /\ \A d \in DOMAIN inbox : d # t.sock => inbox'[d] = inbox[d]
            /\ socks[t.sock].state = "open" =>
                 /\ Len(inbox'[t.sock]) = Len(inbox[t.sock]) + Len(visible) + 1
                 /\ \A k \in 1..Len(visible) :
                      /\ NewFrame(t.sock, k).kind = "event"
                      /\ NewFrame(t.sock, k).method = "Target.attachedToTarget"
                      /\ NewFrame(t.sock, k).psid = visible[k].sessionId
                      /\ NewFrame(t.sock, k).targetInfo = [visible[k].targetInfo EXCEPT !.attached = TRUE]
                 /\ NewFrame(t.sock, Len(visible) + 1).kind = "response"
                 /\ NewFrame(t.sock, Len(visible) + 1).id = t.cmd
                 /\ NewFrame(t.sock, Len(visible) + 1).ok]_vars

\* the extension has answered the forwarded command of task t, before this
\* step or in it
ExtensionAnswered(t) ==
  \/ t.stage = "latch"
  \/ /\ t.stage = "ext"
     /\ \E f \in wire, b \in BOOLEAN :
          t.reqExt = f.ext /\ t.reqId = f.id /\ ExtensionResponse(f, FALSE, NoResult, b)

\* a default-context event of the task's session has been observed since the
\* command was received, or the 3 s have elapsed, before this step or in it
LatchReleased(t) ==
  \/ t.latch = "seen"
  \/ LatchTimeout(t)
  \/ \E ev \in LatchEvents, b \in BOOLEAN :
       /\ ev.method = "Runtime.executionContextCreated"
       /\ ev.sessionId = t.sessionId
       /\ ev.isDefault
       /\ ExtensionEvent(1, ev, b, LatchEvt)

\* C22: a response to Runtime.enable on a session is written only in a step
\* by which the extension has answered the forwarded command and the latch
\* has been released by a default-context event of that session or by the
\* 3 s timer; and the step that ends the handling of the command writes the
\* response to the sender when its socket is open.
C22_EnableAfterLatch ==
  [][/\ \A s \in DOMAIN inbox' : \A k \in Written(s) :
          (inbox'[s][k].kind = "response" /\ cmds'[inbox'[s][k].id].method = "Runtime.enable")
            => \E t \in tasks : /\ t.cmd = inbox'[s][k].id
                                /\ ExtensionAnswered(t)
                                /\ LatchReleased(t)
     /\ \A id \in DOMAIN cmds' :
          (/\ cmds'[id].method = "Runtime.enable"
           /\ cmds'[id].state = "done"
           /\ (id \in DOMAIN cmds => cmds[id].state # "done")
           /\ socks'[cmds'[id].sock].state = "open")
            => \E k \in Written(cmds'[id].sock) :
                 /\ inbox'[cmds'[id].sock][k].kind = "response"
                 /\ inbox'[cmds'[id].sock][k].id = id]_vars

\* the targets of the extension entry the store binds the client to
BoundTargets(state, clientId) ==
  IF ClientHas(state.playwrightClients, clientId)
     /\ ExtHas(state.extensions, ClientGet(state.playwrightClients, clientId).extensionId)
  THEN ExtGet(state.extensions, ClientGet(state.playwrightClients, clientId).extensionId).connectedTargets
  ELSE <<>>

\* open socket s, whose extension is connected, receives
\* Target.attachToTarget for targetId in this step
ReceivesAttachToTarget(s, targetId) ==
  /\ socks[s].state = "open"
  /\ socks[s].clientExtensionId # NULL
  /\ IsConnected(Cur, socks[s].clientExtensionId)
  /\ \E b \in BOOLEAN : DriverMessage(s, "Target.attachToTarget", NULL, targetId, b, ReplayCmd)

\* C23: the step that receives Target.attachToTarget{targetId} from an open
\* driver socket writes to that socket, when the driver's extension has a
\* target with that targetId, Target.attachedToTarget for it and then the
\* response carrying the target's sessionId; otherwise it writes only an error
\* response naming the target and leaves the store unchanged.
C23_AttachToExisting ==
  [][\A s \in DOMAIN socks : \A targetId \in {"t1", "t2"} :
       ReceivesAttachToTarget(s, targetId) =>
         LET ts == BoundTargets(store, socks[s].clientId)
             k == FirstTargetIdx(ts, targetId)
         IN IF k # 0
            THEN /\ Len(inbox'[s]) = Len(inbox[s]) + 2
                 /\ NewFrame(s, 1).kind = "event"
                 /\ NewFrame(s, 1).method = "Target.attachedToTarget"
                 /\ NewFrame(s, 1).psid = ts[k].sessionId
                 /\ NewFrame(s, 1).targetInfo.targetId = targetId
                 /\ NewFrame(s, 2).kind = "response"
                 /\ NewFrame(s, 2).ok
                 /\ NewFrame(s, 2).psid = ts[k].sessionId
            ELSE /\ Len(inbox'[s]) = Len(inbox[s]) + 1
                 /\ NewFrame(s, 1).kind = "response"
                 /\ ~NewFrame(s, 1).ok
                 /\ NewFrame(s, 1).error = "Target " \o targetId \o " not found in connected targets"
                 /\ store' = store]_vars

\* the header is chrome-extension://<id> with <id> in the allow-list
IsAllowedOrigin(origin) ==
  origin.present /\ \E id \in EXTENSION_IDS : origin.pieces = <<"chrome-extension://", id>>

C25_ExtensionGate ==
  [][\A remoteAddress \in Addresses, origin \in Origins :
       ExtensionRequest(remoteAddress, origin, InfoP1, GateExt) =>
         IF remoteAddress \in {"127.0.0.1", "::1"} /\ IsAllowedOrigin(origin)
         THEN /\ Len(extSock') = Len(extSock) + 1
              /\ ExtHas(store'.extensions, ExtNames[Len(extSock')])
         ELSE /\ httpOut' # <<>>
              /\ httpOut'[1].route = "/extension"
              /\ httpOut'[1].status = 403
              /\ extSock' = extSock
              /\ store' = store]_vars

C25_Witness ==
  /\ httpOut # <<>> /\ httpOut[1].route = "/extension" /\ httpOut[1].status = 403
  /\ \E n \in DOMAIN extSock : extSock[n].state = "open" /\ ExtHas(store.extensions, ExtNames[n])

\* the Content-Type header names the media type application/json
IsJson(contentType) ==
  contentType.present /\ Len(contentType.pieces) > 0 /\ contentType.pieces[1] = "application/json"

\* C26: a request to a privileged route is answered 403 when Sec-Fetch-Site
\* is present and neither same-origin nor none; else 415 when it is a POST
\* whose Content-Type is not application/json; else 401 when the relay has a
\* token and neither the bearer token nor the token parameter equals it; else
\* it reaches the route.
C26_PrivilegedGateOrder ==
  \A k \in DOMAIN httpOut :
    LET r == httpOut[k].request
    IN httpOut[k].status =
         IF r.secFetchSite \notin {NULL, "", "same-origin", "none"} THEN 403
         ELSE IF r.method = "POST" /\ ~IsJson(r.contentType) THEN 415
         ELSE IF /\ token # NULL
                 /\ r.authorization # Header(<<"Bearer ", token>>)
                 /\ r.token # token
         THEN 401
         ELSE NEXT

\* the entry is in the store with its socket handle, and the socket is open
IsLive(extensionId) ==
  /\ ExtHas(store.extensions, extensionId)
  /\ ExtGet(store.extensions, extensionId).ws
  /\ extSock[ExtNum(extensionId)].state = "open"

\* the newest entry with a live socket whose stableKey is key, NULL for none
NewestLive(key) ==
  LET cands == {i \in DOMAIN store.extensions :
                  store.extensions[i].stableKey = key /\ IsLive(store.extensions[i].id)}
  IN IF cands = {} THEN NULL
     ELSE store.extensions[CHOOSE i \in cands : \A j \in cands : j <= i].id

\* the only element of a set of entries that has one element, NULL otherwise
TheOnly(entries) ==
  IF Cardinality(entries) = 1 THEN store.extensions[CHOOSE i \in entries : TRUE].id ELSE NULL

C28_EventsInSendOrder ==
  \A s \in DOMAIN inbox : \A i, j \in DOMAIN inbox[s] :
    (/\ i < j
     /\ inbox[s][i].src # NULL
     /\ inbox[s][j].src = inbox[s][i].src)
    => inbox[s][i].seq < inbox[s][j].seq

\* a driver has received two different events of one extension connection
C28_Witness ==
  \E s \in DOMAIN inbox : \E i, j \in DOMAIN inbox[s] :
    /\ i < j
    /\ inbox[s][i].src # NULL
    /\ inbox[s][j].src = inbox[s][i].src
    /\ inbox[s][i].method # inbox[s][j].method
    /\ inbox[s][i].bound = inbox[s][i].src

(***************************************************************************)
(* C29: a target leaves its extension's state when it is detached or       *)
(* crashes.  Once the relay has handled Target.detachedFromTarget of a     *)
(* session, the extension the event came from has no target with that      *)
(* sessionId; once it has handled Target.targetCrashed of a target, that    *)
(* extension has no target with that targetId; and either event leaves the *)
(* targets of every other extension as they were.                          *)
(***************************************************************************)
TargetsOf(state, extensionId) == ExtGet(state.extensions, extensionId).connectedTargets

MarkedAttached(ts) == [i \in DOMAIN ts |-> [ts[i].targetInfo EXCEPT !.attached = TRUE]]

\* the number of frames written to socket d in this step
NewCount(d) == Len(inbox'[d]) - Len(inbox[d])

C30_ListsNonRestricted ==
  [][\A s \in DOMAIN socks : \A b \in BOOLEAN :
       LET listed == MarkedAttached(VisibleTargets(store, socks[s].clientExtensionId))
       IN /\ DriverMessage(s, "Target.getTargets", NULL, NULL, b, ReplayCmd)
               => \A d \in DOMAIN inbox : \A k \in 1..NewCount(d) :
                    (NewFrame(d, k).kind = "response" /\ NewFrame(d, k).ok)
                    => NewFrame(d, k).targetInfos = listed
          /\ DriverMessage(s, "Target.setDiscoverTargets", NULL, NULL, b, ReplayCmd)
               => \A d \in DOMAIN inbox :
                    (NewCount(d) > 0 /\ NewFrame(d, NewCount(d)).ok)
                    => /\ NewCount(d) = Len(listed) + 1
                       /\ \A k \in 1..Len(listed) :
                            /\ NewFrame(d, k).kind = "event"
                            /\ NewFrame(d, k).method = "Target.targetCreated"
                            /\ NewFrame(d, k).targetInfo = listed[k]
                       /\ NewFrame(d, NewCount(d)).kind = "response"]_vars

\* a driver has the result of Target.getTargets, or the replay of
\* Target.setDiscoverTargets, naming one target while its extension holds
\* two, the other one restricted
C30_Witness ==
  /\ ExtHas(store.extensions, "e1")
  /\ Len(TargetsOf(store, "e1")) = 2
  /\ Len(VisibleTargets(store, "e1")) = 1
  /\ \E d \in DOMAIN inbox : \E k \in DOMAIN inbox[d] :
       \/ /\ inbox[d][k].kind = "response"
          /\ inbox[d][k].targetInfos = MarkedAttached(VisibleTargets(store, "e1"))
       \/ /\ inbox[d][k].kind = "event"
          /\ inbox[d][k].method = "Target.targetCreated"
          /\ inbox[d][k].targetInfo = MarkedAttached(VisibleTargets(store, "e1"))[1]
          /\ Len(inbox[d]) = 2

(***************************************************************************)
(* C31: re-adding a target under a sessionId its extension already holds   *)
(* replaces targetId and targetInfo and keeps the frameIds; a sessionId    *)
(* added for the first time starts with no frameIds.  For every extension  *)
(* of the store, every sessionId and every targetInfo: addTarget without   *)
(* existingFrameIds, addTarget with existingFrameIds set to the current    *)
(* set, and the handling of a Target.attachedToTarget of that session all  *)
(* leave the target with the new targetId and targetInfo and with the      *)
(* frameIds it had (none when the session is new).                         *)
(***************************************************************************)
SessionIds == {"s1", "s2", "s3"}

C31_ReAddKeepsFrameIds ==
  \A i \in DOMAIN store.extensions : \A sid \in SessionIds : \A ti \in {PageT1, PageT2} :
    LET e == store.extensions[i]
        had == TargetHas(e.connectedTargets, sid)
        current == IF had THEN TargetGet(e.connectedTargets, sid).frameIds ELSE {}
        after == addTarget(store, e.id, sid, ti.targetId, ti, FALSE, {})
        t == TargetGet(TargetsOf(after, e.id), sid)
    IN /\ t.targetId = ti.targetId
       /\ t.targetInfo = ti
       /\ t.frameIds = current
       /\ had => addTarget(store, e.id, sid, ti.targetId, ti, TRUE, current) = after
       /\ forwardCDPEvent(Cur, e.id, Event("Target.attachedToTarget", NULL, sid, ti, NULL, <<>>),
                          FALSE).store = after

\* an extension holds a target of session s1 that has a frame and whose
\* targetInfo is not the one it is re-added with
C31_Witness ==
  \E i \in DOMAIN store.extensions : \E k \in DOMAIN store.extensions[i].connectedTargets :
    /\ store.extensions[i].connectedTargets[k].frameIds # {}
    /\ store.extensions[i].connectedTargets[k].sessionId = "s1"
    /\ store.extensions[i].connectedTargets[k].targetInfo # PageT1

(***************************************************************************)
(* C32: for every state and every extension id that is not in it,          *)
(* addExtension followed by removeExtension of that id gives the state     *)
(* back: extensions and playwrightClients hold what they held.             *)
(***************************************************************************)
C32_AddThenRemove ==
  \A n \in 1..(MaxExt + 1) : \A info \in Infos :
    ~ExtHas(store.extensions, ExtNames[n])
    => removeExtension(addExtension(store, ExtNames[n], info,
                                    buildStableExtensionKey(info, ExtNames[n]), TRUE),
                       ExtNames[n]) = store

(***************************************************************************)
(* C33: handling one Target.targetInfoChanged twice leaves the store as    *)
(* handling it once does, and the event changes nothing in the store but   *)
(* the targetInfo of the target with that targetId of the extension it     *)
(* came from.                                                              *)
(***************************************************************************)
InfoChanged(targetInfo) == Event("Target.targetInfoChanged", NULL, NULL, targetInfo, NULL, <<>>)

C33_InfoChangedIdempotent ==
  \A x \in DOMAIN store.extensions : \A ti \in {PageT1, ChromeT1, PageT2} :
    LET id == store.extensions[x].id
        once == forwardCDPEvent(Cur, id, InfoChanged(ti), FALSE)
        twice == forwardCDPEvent(once, id, InfoChanged(ti), FALSE)
        ts == store.extensions[x].connectedTargets
    IN /\ twice.store = once.store
       /\ once.store.playwrightClients = store.playwrightClients
       /\ DOMAIN once.store.extensions = DOMAIN store.extensions
       /\ \A y \in DOMAIN store.extensions :
            y # x => once.store.extensions[y] = store.extensions[y]
       /\ [once.store.extensions[x] EXCEPT !.connectedTargets = ts] = store.extensions[x]
       /\ DOMAIN once.store.extensions[x].connectedTargets = DOMAIN ts
       /\ \A k \in DOMAIN ts :
            LET t == once.store.extensions[x].connectedTargets[k]
            IN \/ t = ts[k]
               \/ ts[k].targetId = ti.targetId /\ t = [ts[k] EXCEPT !.targetInfo = ti]
       /\ (\E k \in DOMAIN ts : ts[k].targetId = ti.targetId)
            => \E k \in DOMAIN ts :
                 once.store.extensions[x].connectedTargets[k].targetInfo = ti

\* a driver was forwarded a Target.targetInfoChanged and the extension's
\* target holds the changed targetInfo
C33_Witness ==
  /\ \E s \in DOMAIN inbox : \E k \in DOMAIN inbox[s] :
       inbox[s][k].method = "Target.targetInfoChanged"
  /\ \E x \in DOMAIN store.extensions : \E k \in DOMAIN store.extensions[x].connectedTargets :
       /\ store.extensions[x].connectedTargets[k].targetInfo = ChromeT1
       /\ nEvt = TargetEvt

(***************************************************************************)
(* C34: every transition function applied to an entity that is not in the  *)
(* state (an unknown extension id, session id, target id, client id or     *)
(* frame id) returns the state it was given.                               *)
(***************************************************************************)
\* the transitions that look up an extension, applied to the id
ExtensionTransitions(id) ==
  { removeExtension(store, id),
    updateExtensionIO(store, id, TRUE),
    addExtensionPendingRequest(store, id, 1),
    removeExtensionPendingRequest(store, id, 1),
    addTarget(store, id, "s1", "t1", PageT1, FALSE, {}),
    removeTarget(store, id, "s1"),
    removeTargetByCrash(store, id, "t1"),
    updateTargetInfo(store, id, PageT1),
    addFrameId(store, id, "s1", "f1"),
    removeFrameId(store, id, "f1"),
    updateTargetUrl(store, id, "s1", <<"https://", "b">>, FALSE, NULL) }

\* the transitions that look up a session, a target or a frame of an
\* extension that is in the state
TargetTransitions(id, sessionId, targetId, frameId) ==
  LET ts == TargetsOf(store, id)
  IN (IF TargetHas(ts, sessionId) THEN {}
      ELSE { removeTarget(store, id, sessionId),
             addFrameId(store, id, sessionId, "f1"),
             updateTargetUrl(store, id, sessionId, <<"https://", "b">>, FALSE, NULL) })
     \cup (IF FirstTargetIdx(ts, targetId) # 0 THEN {}
           ELSE { removeTargetByCrash(store, id, targetId),
                  updateTargetInfo(store, id, TargetInfo(targetId, "page", <<"https://", "b">>, NULL)) })
     \cup (IF \E k \in DOMAIN ts : frameId \in ts[k].frameIds THEN {}
           ELSE { removeFrameId(store, id, frameId) })
     \cup (IF 1 \in ExtGet(store.extensions, id).pendingRequests THEN {}
           ELSE { removeExtensionPendingRequest(store, id, 1) })

\* the transitions on playwrightClients that name the extension id
ClientTransitions(id) ==
  { addPlaywrightClient(store, clientId, id, 1) : clientId \in ClientIds }
  \cup { rebindClientsToExtension(store, id, ExtNames[n]) : n \in 1..(MaxExt + 1) }
  \cup { rebindClientsToExtension(store, ExtNames[n], id) : n \in 1..(MaxExt + 1) }

C34_MissingEntityNoOp ==
  /\ \A n \in 1..(MaxExt + 1) :
       IF ExtHas(store.extensions, ExtNames[n])
       THEN \A sid \in SessionIds, tid \in {"t1", "t2"}, fid \in {"f1", "f2"} :
              TargetTransitions(ExtNames[n], sid, tid, fid) \subseteq {store}
       ELSE ExtensionTransitions(ExtNames[n]) \cup ClientTransitions(ExtNames[n]) \subseteq {store}
  /\ \A clientId \in ClientIds :
       ~ClientHas(store.playwrightClients, clientId)
       => removePlaywrightClient(store, clientId) = store

(***************************************************************************)
(* C35: a driver's entry leaves playwrightClients only when the socket     *)
(* that created it closes, when the extension it is bound to is removed,   *)
(* or when the server shuts down; the close of another socket that used    *)
(* the same clientId never removes it.                                     *)
(***************************************************************************)
\* the entry the socket of client created is in the state
Registered(state, client) ==
  \E j \in DOMAIN state.playwrightClients :
    /\ state.playwrightClients[j].id = client.id
    /\ state.playwrightClients[j].ws = client.ws

C35_RemovedOnlyByOwnClose ==
  [][\A i \in DOMAIN store.playwrightClients :
       LET client == store.playwrightClients[i]
       IN ~Registered(store', client)
          => \/ socks[client.ws].state # "closed" /\ socks'[client.ws].state = "closed"
             \/ ExtHas(store.extensions, client.extensionId)
                  /\ ~ExtHas(store'.extensions, client.extensionId)
             \/ ~stopped /\ stopped']_vars

(***************************************************************************)
(* C36: while two entries of one stableKey are in the store, a driver that *)
(* connects with extensionId equal to that stableKey, or without           *)
(* extensionId when every entry has that stableKey, is bound to the newest *)
(* entry of the key (and so is not closed with 4003, which is what a       *)
(* driver without a resolved extension gets).                              *)
(***************************************************************************)
\* the entries of the key overlap
Overlap(state, stableKey) ==
  \E i, j \in DOMAIN state.extensions :
    /\ i # j
    /\ state.extensions[i].stableKey = stableKey
    /\ state.extensions[j].stableKey = stableKey

C36_OverlapBindsNewest ==
  [][\A clientId \in ClientIds, requested \in RequestedIds :
       DriverUpgrade(clientId, requested, ReconSock)
       => \A k \in DOMAIN ProfileKey :
            (/\ Overlap(store, ProfileKey[k])
             /\ \/ requested = ProfileKey[k]
                \/ /\ requested = NULL
                   /\ \A i \in DOMAIN store.extensions : store.extensions[i].stableKey = ProfileKey[k])
            => socks'[Len(socks')].clientExtensionId = findExtensionByStableKey(store, ProfileKey[k])
    ]_vars

(***************************************************************************)
(* C37: no Target.attachedToTarget of an iframe target is written to a     *)
(* driver on the root session, that is, without an outer sessionId:        *)
(* whether forwarded from the extension, replayed after                    *)
(* Target.setAutoAttach or emitted for Target.attachToTarget.              *)
(***************************************************************************)
C37_IframeNeverOnRoot ==
  \A s \in DOMAIN inbox : \A k \in DOMAIN inbox[s] :
    (/\ inbox[s][k].kind = "event"
     /\ inbox[s][k].method = "Target.attachedToTarget"
     /\ inbox[s][k].targetInfo.type = "iframe")
    => inbox[s][k].sessionId # NULL

\* the requests the calls of ts are suspended on: connection and id
Requested(ts) ==
  {<<t.reqExt, t.reqId>> : t \in {u \in ts : u.stage \in {"initTab", "ext", "server"}}}

\* the requests pending in the store: connection and id
Pending(state) ==
  UNION {{<<state.extensions[i].id, r>> : r \in state.extensions[i].pendingRequests} :
         i \in DOMAIN state.extensions}

\* C38: every request pending in the store has exactly one call suspended on
\* it: the step that settles a request (response, timer, send failure, close
\* of the extension) removes its pending entry together with the call, a
\* driver command whose request is still awaited has not been answered, and
\* a response frame that arrives for an id no longer pending on its
\* connection changes nothing but the frame being consumed.
C38_SettledExactlyOnce ==
  [][/\ Pending(store') \subseteq Requested(tasks')
     /\ \A q \in Requested(tasks') :
          Cardinality({t \in tasks' : t.stage \in {"initTab", "ext", "server"}
                                        /\ <<t.reqExt, t.reqId>> = q}) = 1
     /\ \A t \in tasks' : (t.stage \in {"initTab", "ext", "server"} /\ t.cmd > 0)
                               => cmds'[t.cmd].state = "pending"
     /\ \A f \in wire : \A isError \in BOOLEAN : \A res \in Results : \A sendThrows \in BOOLEAN :
          (/\ ExtHas(store.extensions, f.ext)
           /\ <<f.ext, f.id>> \notin Pending(store)
           /\ ExtensionResponse(f, isError, res, sendThrows))
            => UNCHANGED <<store, extSock, socks, inbox, tasks, cmds>>]_vars

\* a driver command was answered with the timeout error, its request is no
\* longer pending, and the extension's response to it is still on the way
C38_Witness ==
  \E f \in wire :
    /\ ExtHas(store.extensions, f.ext)
    /\ <<f.ext, f.id>> \notin Pending(store)
    /\ <<f.ext, f.id>> \notin Requested(tasks)
    /\ \E s \in DOMAIN inbox : \E k \in DOMAIN inbox[s] :
         inbox[s][k].kind = "response" /\ inbox[s][k].error = "Extension request timeout"

\* the ids pending on connection id, none when the store has no such entry
PendingOn(state, id) ==
  IF ExtHas(state.extensions, id) THEN ExtGet(state.extensions, id).pendingRequests ELSE {}

\* C39: the step that processes a response frame received on a connection
\* removes no pending request of any other connection and settles no call
\* awaiting one, and when the frame's id is not pending on its own connection
\* (whose entry is in the store) nothing changes but the frame being consumed,
\* also while the same id is pending on another connection of the same
\* stableKey.
C39_ResponseOwnConnectionOnly ==
  [][\A f \in wire : \A isError \in BOOLEAN :
       ExtensionResponse(f, isError, NoResult, FALSE)
         => /\ \A n \in DOMAIN extSock :
                 ExtNames[n] # f.ext
                   => /\ PendingOn(store, ExtNames[n]) \subseteq PendingOn(store', ExtNames[n])
                      /\ Awaiting(tasks, ExtNames[n]) \subseteq Awaiting(tasks', ExtNames[n])
            /\ (ExtHas(store.extensions, f.ext) /\ f.id \notin PendingOn(store, f.ext))
                 => UNCHANGED <<store, extSock, socks, inbox, tasks, cmds>>]_vars

\* two entries of one stableKey are in the store; the response to request 1
\* of the older one has been consumed, that request is no longer pending
\* there, and request 1 of the newer one is still pending and unanswered
C39_Witness ==
  /\ ExtHas(store.extensions, "e1") /\ ExtHas(store.extensions, "e2")
  /\ ExtGet(store.extensions, "e1").stableKey = ExtGet(store.extensions, "e2").stableKey
  /\ ExtGet(store.extensions, "e1").messageId = 1
  /\ 1 \notin PendingOn(store, "e1")
  /\ 1 \in PendingOn(store, "e2")
  /\ \A f \in wire : f.ext # "e1"
  /\ \E f \in wire : f.ext = "e2" /\ f.id = 1
  /\ \E s \in DOMAIN inbox : \E k \in DOMAIN inbox[s] :
       inbox[s][k].kind = "response" /\ inbox[s][k].error = "Extension request timeout"

\* C40: the step of RelayServer.close() leaves the store empty, leaves no
\* driver or extension socket that was open still open, and leaves no call
\* suspended on a request to an extension; a socket close handler that runs
\* after it on an empty store leaves the store empty.
C40_CloseReleasesEverything ==
  [][/\ (~stopped /\ stopped')
          => /\ store' = createRelayStore
             /\ \A s \in DOMAIN socks : socks[s].state = "open" => socks'[s].state # "open"
             /\ \A n \in DOMAIN extSock : extSock[n].state = "open" => extSock'[n].state # "open"
             /\ Requested(tasks') = {}
     /\ (/\ stopped
         /\ store = createRelayStore
         /\ \/ \E n \in DOMAIN extSock : ExtensionClose(n, FALSE)
            \/ \E s \in DOMAIN socks : DriverClose(s))
          => store' = createRelayStore]_vars

====
